---------------------------- MODULE Spec2Model ----------------------------
(***************************************************************************)
(* smarthire-backend: the job matching engine of                           *)
(* src/src/resume_parser/matcher.py (match_jobs and the scoring functions  *)
(* it calls) as a state machine whose actions are calls of the engine's    *)
(* functions.                                                              *)
(*                                                                         *)
(* Numbers.  Python floats are modelled in fixed point: a real x is the    *)
(* integer x * ONE, ONE = 10^6, every operation truncating to that grid.   *)
(* Strings.  A Python str is the sequence of its characters, each a        *)
(* one-character TLA+ string: "js" is <<"j", "s">>.                        *)
(* Values.   A Python value of a dynamically typed field is a record with  *)
(* a tag t in {"absent", "none", "num", "str", "list"} and, but for the    *)
(* first two, its content v.                                               *)
(* Exceptions.  A function that can raise returns [exc |-> e, v |-> x]:    *)
(* exc = "ok" and the returned value x, or the name of the exception.      *)
(***************************************************************************)
EXTENDS Integers, Sequences, FiniteSets, TLC

-----------------------------------------------------------------------------
(* Fixed-point arithmetic *)

ONE == 1000 * 1000

\* the decimal literal n/d of the source (0.7 is Dec(7, 10))
Dec(n, d) == (n * ONE) \div d

Min2(a, b) == IF a <= b THEN a ELSE b

Max2(a, b) == IF a >= b THEN a ELSE b

\* x * y for fixed-point x, y >= 0 (split in thousands: no 32-bit overflow)
Mul(x, y) ==
    LET xh == x \div 1000
        xl == x % 1000
        yh == y \div 1000
        yl == y % 1000
    IN  xh * yh + (xh * yl + xl * yh + (xl * yl) \div 1000) \div 1000

RECURSIVE DivDigits(_, _, _)
DivDigits(r, b, n) ==
    IF n = 0 THEN 0
    ELSE DivDigits((r * 10) % b, b, n - 1) + ((r * 10) \div b) * (10 ^ (n - 1))

\* a / b as a fixed-point number, for a >= 0 and b > 0 in the same unit
\* (long division, six decimal digits)
Div(a, b) == (a \div b) * ONE + DivDigits(a % b, b, 6)

\* (x * y) mod 1, the part of the product that Mul truncates
MulRem(x, y) ==
    LET xh == x \div 1000
        xl == x % 1000
        yh == y \div 1000
        yl == y % 1000
    IN  (xl * yl + ((xh * yl + xl * yh) % 1000) * 1000) % ONE

RECURSIVE SqrtSearch(_, _, _)
SqrtSearch(x, lo, hi) ==
    IF hi - lo <= 1 THEN lo
    ELSE LET mid == (lo + hi) \div 2
         IN  IF Mul(mid, mid) < x \/ (Mul(mid, mid) = x /\ MulRem(mid, mid) = 0)
             THEN SqrtSearch(x, mid, hi)
             ELSE SqrtSearch(x, lo, mid)

\* x ** 0.5 for a fixed-point x in [0, 1]: the largest s with s * s <= x
Sqrt(x) == IF x >= ONE THEN ONE ELSE SqrtSearch(x, 0, ONE)

RECURSIVE ExpSeries(_, _, _)
ExpSeries(t, term, n) ==
    IF term = 0 THEN 0
    ELSE term + ExpSeries(t, Mul(term, t) \div n, n + 1)

\* math.exp(t) for a fixed-point t in [-3, 3] (Taylor series)
Exp(t) == IF t >= 0 THEN ExpSeries(t, ONE, 1)
          ELSE Div(ONE, ExpSeries(-t, ONE, 1))

\* Python's round(x, n): to the nearest multiple of unit, ties to even
Round(x, unit) ==
    LET q == x \div unit
        r == x % unit
    IN  IF 2 * r > unit \/ (2 * r = unit /\ q % 2 = 1)
        THEN (q + 1) * unit ELSE q * unit

\* round(x, 3) of a fixed-point x
Round3(x) == Round(x, 1000)

\* round(x, 1) of a fixed-point x
Round1(x) == Round(x, 100 * 1000)

-----------------------------------------------------------------------------
(* Strings: sequences of one-character strings *)

UpperChars ==
    <<"A", "B", "C", "D", "E", "F", "G", "H", "I", "J", "K", "L", "M",
      "N", "O", "P", "Q", "R", "S", "T", "U", "V", "W", "X", "Y", "Z">>

LowerChars ==
    <<"a", "b", "c", "d", "e", "f", "g", "h", "i", "j", "k", "l", "m",
      "n", "o", "p", "q", "r", "s", "t", "u", "v", "w", "x", "y", "z">>

DigitChars == <<"0", "1", "2", "3", "4", "5", "6", "7", "8", "9">>

Range(f) == {f[i] : i \in DOMAIN f}

Digits == Range(DigitChars)

Uppers == Range(UpperChars)

WordChars == Range(UpperChars) \cup Range(LowerChars) \cup Range(DigitChars) \cup {"_"}

\* the regex class \d
IsDigit(c) == c \in Digits

\* the regex class \s
IsSpace(c) == c \in {" ", "\t", "\n", "\r"}

\* the regex class \w
IsWord(c) == c \in WordChars

LowerChar(c) ==
    IF c \in Uppers
    THEN LowerChars[CHOOSE i \in DOMAIN UpperChars : UpperChars[i] = c]
    ELSE c

\* str.lower()
Lower(s) == [i \in DOMAIN s |-> LowerChar(s[i])]

\* str.strip()
Strip(s) ==
    LET keep == {i \in DOMAIN s : ~IsSpace(s[i])}
    IN  IF keep = {} THEN <<>>
        ELSE SubSeq(s, CHOOSE i \in keep : \A j \in keep : i <= j,
                       CHOOSE i \in keep : \A j \in keep : i >= j)

\* whether sub occurs in s at position i
OccursAt(s, sub, i) ==
    /\ i + Len(sub) - 1 <= Len(s)
    /\ \A k \in 1..Len(sub) : s[i + k - 1] = sub[k]

\* the Python test  sub in s  on two strings
Contains(s, sub) == \E i \in 1..(Len(s) + 1) : OccursAt(s, sub, i)

RECURSIVE ReplaceFrom(_, _, _)
ReplaceFrom(s, old, i) ==
    IF i > Len(s) THEN <<>>
    ELSE IF OccursAt(s, old, i) THEN ReplaceFrom(s, old, i + Len(old))
    ELSE <<s[i]>> \o ReplaceFrom(s, old, i + 1)

\* str.replace(old, '') for a non-empty old
Remove(s, old) == ReplaceFrom(s, old, 1)

RECURSIVE Join(_, _)
\* sep.join(lines)
Join(sep, lines) ==
    IF lines = <<>> THEN <<>>
    ELSE IF Len(lines) = 1 THEN lines[1]
    ELSE lines[1] \o sep \o Join(sep, Tail(lines))

RECURSIVE SplitFrom(_, _, _)
SplitFrom(s, i, word) ==
    IF i > Len(s) THEN (IF word = <<>> THEN <<>> ELSE <<word>>)
    ELSE IF IsSpace(s[i])
         THEN (IF word = <<>> THEN <<>> ELSE <<word>>) \o SplitFrom(s, i + 1, <<>>)
         ELSE SplitFrom(s, i + 1, Append(word, s[i]))

\* str.split(): the words between runs of whitespace
Split(s) == SplitFrom(s, 1, <<>>)

\* the list l as the set of its elements
ToSet(l) == {l[i] : i \in DOMAIN l}

-----------------------------------------------------------------------------
(* The tables of matcher.py, in the order of the source (a dict is iterated
   in insertion order) *)

\* SKILL_SYNONYMS.items(): each base skill with its list of spellings
SKILL_SYNONYMS == <<
    \* 'javascript': ['js', 'javascript', 'ecmascript', 'node.js', 'nodejs']
    [base |-> <<"j", "a", "v", "a", "s", "c", "r", "i", "p", "t">>,
     synonyms |-> <<<<"j", "s">>,
                    <<"j", "a", "v", "a", "s", "c", "r", "i", "p", "t">>,
                    <<"e", "c", "m", "a", "s", "c", "r", "i", "p", "t">>,
                    <<"n", "o", "d", "e", ".", "j", "s">>,
                    <<"n", "o", "d", "e", "j", "s">>>>],
    \* 'python': ['python', 'python3', 'py']
    [base |-> <<"p", "y", "t", "h", "o", "n">>,
     synonyms |-> <<<<"p", "y", "t", "h", "o", "n">>,
                    <<"p", "y", "t", "h", "o", "n", "3">>,
                    <<"p", "y">>>>],
    \* 'java': ['java', 'java8', 'java11', 'java17']
    [base |-> <<"j", "a", "v", "a">>,
     synonyms |-> <<<<"j", "a", "v", "a">>,
                    <<"j", "a", "v", "a", "8">>,
                    <<"j", "a", "v", "a", "1", "1">>,
                    <<"j", "a", "v", "a", "1", "7">>>>],
    \* 'react': ['react', 'reactjs', 'react.js']
    [base |-> <<"r", "e", "a", "c", "t">>,
     synonyms |-> <<<<"r", "e", "a", "c", "t">>,
                    <<"r", "e", "a", "c", "t", "j", "s">>,
                    <<"r", "e", "a", "c", "t", ".", "j", "s">>>>],
    \* 'angular': ['angular', 'angularjs', 'angular2+']
    [base |-> <<"a", "n", "g", "u", "l", "a", "r">>,
     synonyms |-> <<<<"a", "n", "g", "u", "l", "a", "r">>,
                    <<"a", "n", "g", "u", "l", "a", "r", "j", "s">>,
                    <<"a", "n", "g", "u", "l", "a", "r", "2", "+">>>>],
    \* 'vue': ['vue', 'vuejs', 'vue.js']
    [base |-> <<"v", "u", "e">>,
     synonyms |-> <<<<"v", "u", "e">>,
                    <<"v", "u", "e", "j", "s">>,
                    <<"v", "u", "e", ".", "j", "s">>>>],
    \* 'node.js': ['node', 'nodejs', 'node.js']
    [base |-> <<"n", "o", "d", "e", ".", "j", "s">>,
     synonyms |-> <<<<"n", "o", "d", "e">>,
                    <<"n", "o", "d", "e", "j", "s">>,
                    <<"n", "o", "d", "e", ".", "j", "s">>>>],
    \* 'mongodb': ['mongodb', 'mongo', 'nosql']
    [base |-> <<"m", "o", "n", "g", "o", "d", "b">>,
     synonyms |-> <<<<"m", "o", "n", "g", "o", "d", "b">>,
                    <<"m", "o", "n", "g", "o">>,
                    <<"n", "o", "s", "q", "l">>>>],
    \* 'mysql': ['mysql', 'sql']
    [base |-> <<"m", "y", "s", "q", "l">>,
     synonyms |-> <<<<"m", "y", "s", "q", "l">>,
                    <<"s", "q", "l">>>>],
    \* 'postgresql': ['postgresql', 'postgres', 'sql']
    [base |-> <<"p", "o", "s", "t", "g", "r", "e", "s", "q", "l">>,
     synonyms |-> <<<<"p", "o", "s", "t", "g", "r", "e", "s", "q", "l">>,
                    <<"p", "o", "s", "t", "g", "r", "e", "s">>,
                    <<"s", "q", "l">>>>],
    \* 'aws': ['aws', 'amazon web services', 'cloud']
    [base |-> <<"a", "w", "s">>,
     synonyms |-> <<<<"a", "w", "s">>,
                    <<"a", "m", "a", "z", "o", "n", " ", "w", "e", "b", " ", "s", "e", "r", "v", "i", "c", "e", "s">>,
                    <<"c", "l", "o", "u", "d">>>>],
    \* 'docker': ['docker', 'containerization']
    [base |-> <<"d", "o", "c", "k", "e", "r">>,
     synonyms |-> <<<<"d", "o", "c", "k", "e", "r">>,
                    <<"c", "o", "n", "t", "a", "i", "n", "e", "r", "i", "z", "a", "t", "i", "o", "n">>>>],
    \* 'kubernetes': ['kubernetes', 'k8s']
    [base |-> <<"k", "u", "b", "e", "r", "n", "e", "t", "e", "s">>,
     synonyms |-> <<<<"k", "u", "b", "e", "r", "n", "e", "t", "e", "s">>,
                    <<"k", "8", "s">>>>],
    \* 'machine learning': ['ml', 'machine learning', 'artificial intelligence', 'ai']
    [base |-> <<"m", "a", "c", "h", "i", "n", "e", " ", "l", "e", "a", "r", "n", "i", "n", "g">>,
     synonyms |-> <<<<"m", "l">>,
                    <<"m", "a", "c", "h", "i", "n", "e", " ", "l", "e", "a", "r", "n", "i", "n", "g">>,
                    <<"a", "r", "t", "i", "f", "i", "c", "i", "a", "l", " ", "i", "n", "t", "e", "l", "l", "i", "g", "e", "n", "c", "e">>,
                    <<"a", "i">>>>],
    \* 'data science': ['data science', 'data analysis', 'analytics']
    [base |-> <<"d", "a", "t", "a", " ", "s", "c", "i", "e", "n", "c", "e">>,
     synonyms |-> <<<<"d", "a", "t", "a", " ", "s", "c", "i", "e", "n", "c", "e">>,
                    <<"d", "a", "t", "a", " ", "a", "n", "a", "l", "y", "s", "i", "s">>,
                    <<"a", "n", "a", "l", "y", "t", "i", "c", "s">>>>],
    \* 'html': ['html', 'html5']
    [base |-> <<"h", "t", "m", "l">>,
     synonyms |-> <<<<"h", "t", "m", "l">>,
                    <<"h", "t", "m", "l", "5">>>>],
    \* 'css': ['css', 'css3', 'styling']
    [base |-> <<"c", "s", "s">>,
     synonyms |-> <<<<"c", "s", "s">>,
                    <<"c", "s", "s", "3">>,
                    <<"s", "t", "y", "l", "i", "n", "g">>>>],
    \* 'git': ['git', 'version control', 'github', 'gitlab']
    [base |-> <<"g", "i", "t">>,
     synonyms |-> <<<<"g", "i", "t">>,
                    <<"v", "e", "r", "s", "i", "o", "n", " ", "c", "o", "n", "t", "r", "o", "l">>,
                    <<"g", "i", "t", "h", "u", "b">>,
                    <<"g", "i", "t", "l", "a", "b">>>>],
    \* 'rest api': ['rest', 'api', 'restful', 'web services']
    [base |-> <<"r", "e", "s", "t", " ", "a", "p", "i">>,
     synonyms |-> <<<<"r", "e", "s", "t">>,
                    <<"a", "p", "i">>,
                    <<"r", "e", "s", "t", "f", "u", "l">>,
                    <<"w", "e", "b", " ", "s", "e", "r", "v", "i", "c", "e", "s">>>>],
    \* 'graphql': ['graphql', 'graph ql']
    [base |-> <<"g", "r", "a", "p", "h", "q", "l">>,
     synonyms |-> <<<<"g", "r", "a", "p", "h", "q", "l">>,
                    <<"g", "r", "a", "p", "h", " ", "q", "l">>>>],
    \* 'typescript': ['typescript', 'ts']
    [base |-> <<"t", "y", "p", "e", "s", "c", "r", "i", "p", "t">>,
     synonyms |-> <<<<"t", "y", "p", "e", "s", "c", "r", "i", "p", "t">>,
                    <<"t", "s">>>>],
    \* 'express': ['express', 'expressjs', 'express.js']
    [base |-> <<"e", "x", "p", "r", "e", "s", "s">>,
     synonyms |-> <<<<"e", "x", "p", "r", "e", "s", "s">>,
                    <<"e", "x", "p", "r", "e", "s", "s", "j", "s">>,
                    <<"e", "x", "p", "r", "e", "s", "s", ".", "j", "s">>>>],
    \* 'django': ['django', 'python web framework']
    [base |-> <<"d", "j", "a", "n", "g", "o">>,
     synonyms |-> <<<<"d", "j", "a", "n", "g", "o">>,
                    <<"p", "y", "t", "h", "o", "n", " ", "w", "e", "b", " ", "f", "r", "a", "m", "e", "w", "o", "r", "k">>>>],
    \* 'flask': ['flask', 'python web framework']
    [base |-> <<"f", "l", "a", "s", "k">>,
     synonyms |-> <<<<"f", "l", "a", "s", "k">>,
                    <<"p", "y", "t", "h", "o", "n", " ", "w", "e", "b", " ", "f", "r", "a", "m", "e", "w", "o", "r", "k">>>>],
    \* 'spring': ['spring', 'spring boot', 'java framework']
    [base |-> <<"s", "p", "r", "i", "n", "g">>,
     synonyms |-> <<<<"s", "p", "r", "i", "n", "g">>,
                    <<"s", "p", "r", "i", "n", "g", " ", "b", "o", "o", "t">>,
                    <<"j", "a", "v", "a", " ", "f", "r", "a", "m", "e", "w", "o", "r", "k">>>>],
    \* 'devops': ['devops', 'ci/cd', 'deployment']
    [base |-> <<"d", "e", "v", "o", "p", "s">>,
     synonyms |-> <<<<"d", "e", "v", "o", "p", "s">>,
                    <<"c", "i", "/", "c", "d">>,
                    <<"d", "e", "p", "l", "o", "y", "m", "e", "n", "t">>>>],
    \* 'agile': ['agile', 'scrum', 'kanban']
    [base |-> <<"a", "g", "i", "l", "e">>,
     synonyms |-> <<<<"a", "g", "i", "l", "e">>,
                    <<"s", "c", "r", "u", "m">>,
                    <<"k", "a", "n", "b", "a", "n">>>>],
    \* 'testing': ['testing', 'unit testing', 'integration testing', 'qa']
    [base |-> <<"t", "e", "s", "t", "i", "n", "g">>,
     synonyms |-> <<<<"t", "e", "s", "t", "i", "n", "g">>,
                    <<"u", "n", "i", "t", " ", "t", "e", "s", "t", "i", "n", "g">>,
                    <<"i", "n", "t", "e", "g", "r", "a", "t", "i", "o", "n", " ", "t", "e", "s", "t", "i", "n", "g">>,
                    <<"q", "a">>>>],
    \* 'frontend': ['frontend', 'front-end', 'ui', 'user interface']
    [base |-> <<"f", "r", "o", "n", "t", "e", "n", "d">>,
     synonyms |-> <<<<"f", "r", "o", "n", "t", "e", "n", "d">>,
                    <<"f", "r", "o", "n", "t", "-", "e", "n", "d">>,
                    <<"u", "i">>,
                    <<"u", "s", "e", "r", " ", "i", "n", "t", "e", "r", "f", "a", "c", "e">>>>],
    \* 'backend': ['backend', 'back-end', 'server-side']
    [base |-> <<"b", "a", "c", "k", "e", "n", "d">>,
     synonyms |-> <<<<"b", "a", "c", "k", "e", "n", "d">>,
                    <<"b", "a", "c", "k", "-", "e", "n", "d">>,
                    <<"s", "e", "r", "v", "e", "r", "-", "s", "i", "d", "e">>>>],
    \* 'fullstack': ['fullstack', 'full-stack', 'full stack']
    [base |-> <<"f", "u", "l", "l", "s", "t", "a", "c", "k">>,
     synonyms |-> <<<<"f", "u", "l", "l", "s", "t", "a", "c", "k">>,
                    <<"f", "u", "l", "l", "-", "s", "t", "a", "c", "k">>,
                    <<"f", "u", "l", "l", " ", "s", "t", "a", "c", "k">>>>]
    >>

\* EDUCATION_LEVELS.items(): each level keyword with its value
EDUCATION_LEVELS == <<
    [level |-> <<"p", "h", "d">>, value |-> 5],  \* 'phd'
    [level |-> <<"d", "o", "c", "t", "o", "r", "a", "t", "e">>, value |-> 5],  \* 'doctorate'
    [level |-> <<"m", "a", "s", "t", "e", "r">>, value |-> 4],  \* 'master'
    [level |-> <<"m", "s", "c">>, value |-> 4],  \* 'msc'
    [level |-> <<"m", "t", "e", "c", "h">>, value |-> 4],  \* 'mtech'
    [level |-> <<"m", "b", "a">>, value |-> 4],  \* 'mba'
    [level |-> <<"m", ".", "e">>, value |-> 4],  \* 'm.e'
    [level |-> <<"b", "a", "c", "h", "e", "l", "o", "r">>, value |-> 3],  \* 'bachelor'
    [level |-> <<"b", "t", "e", "c", "h">>, value |-> 3],  \* 'btech'
    [level |-> <<"b", ".", "e">>, value |-> 3],  \* 'b.e'
    [level |-> <<"b", "s", "c">>, value |-> 3],  \* 'bsc'
    [level |-> <<"b", ".", "e", ".">>, value |-> 3],  \* 'b.e.'
    [level |-> <<"d", "i", "p", "l", "o", "m", "a">>, value |-> 2],  \* 'diploma'
    [level |-> <<"c", "e", "r", "t", "i", "f", "i", "c", "a", "t", "i", "o", "n">>, value |-> 1],  \* 'certification'
    [level |-> <<"c", "e", "r", "t", "i", "f", "i", "c", "a", "t", "e">>, value |-> 1]  \* 'certificate'
    >>

-----------------------------------------------------------------------------
(* Python values *)

Absent == [t |-> "absent"]

None == [t |-> "none"]

Num(n) == [t |-> "num", v |-> n]

Str(s) == [t |-> "str", v |-> s]

List(l) == [t |-> "list", v |-> l]

\* faulty variant: the subscript d[key], which has no default
Get_Subscript(d, key, default) == d[key]

\* dict.get(key, default) on a record that holds Absent for a missing key
Get(d, key, default) == IF d[key].t = "absent" THEN default ELSE d[key]

\* the Python test  not x
Not(x) ==
    \/ x.t = "none"
    \/ x.t = "num" /\ x.v = 0
    \/ x.t \in {"str", "list"} /\ x.v = <<>>

\* whether  for e in x  can run: a number or None is not iterable
Iterable(x) == x.t \in {"list", "str"}

\* the elements  for e in x  visits: those of a list, the characters of a str
Iter(x) == IF x.t = "str" THEN [i \in DOMAIN x.v |-> <<x.v[i]>>] ELSE x.v

Ok(x) == [exc |-> "ok", v |-> x]

Raise(e) == [exc |-> e, v |-> 0]

-----------------------------------------------------------------------------
(* normalize_skills *)

\* the characters re.sub(r'[^\w\s\.\+\-]', '', skill) keeps
KeepChar(c) == IsWord(c) \/ IsSpace(c) \/ c \in {".", "+", "-"}

\* lines 103-105: the cleaned token of one skill
CleanSkill(skill) ==
    Remove(Remove(SelectSeq(Strip(Lower(skill)), KeepChar),
                  <<".", "j", "s">>), <<".", "p", "y">>)

\* faulty variant: no synonym expansion
ExpandSkill_NoSynonyms(skill) == {skill}

\* lines 108-114: the token and the synonyms of the first group of
\* SKILL_SYNONYMS that lists it (the loop breaks at the first group)
ExpandSkill(skill) ==
    LET groups == {g \in DOMAIN SKILL_SYNONYMS :
                      skill \in ToSet(SKILL_SYNONYMS[g].synonyms)}
    IN  IF groups = {} THEN {skill}
        ELSE {skill} \cup
             ToSet(SKILL_SYNONYMS[CHOOSE g \in groups :
                                     \A h \in groups : g <= h].synonyms)

\* normalize_skills(skills), as the set of the list it returns (the list is
\* list(normalized), in no specified order; its callers make a set of it)
normalize_skills(skills) ==
    IF Not(skills) THEN Ok({})
    ELSE IF ~Iterable(skills) THEN Raise("TypeError")
    ELSE LET l == Iter(skills)
         IN  Ok(UNION {ExpandSkill(CleanSkill(l[i])) :
                          i \in {j \in DOMAIN l : l[j] # <<>>}})

-----------------------------------------------------------------------------
(* difflib.SequenceMatcher(None, a, b).ratio() *)

RECURSIVE SetMax(_)
\* max over a set of numbers >= 0, 0 when empty
SetMax(S) ==
    IF S = {} THEN 0
    ELSE LET x == CHOOSE y \in S : TRUE
         IN  Max2(x, SetMax(S \ {x}))

\* min over a non-empty set of numbers
SetMin(S) == CHOOSE x \in S : \A y \in S : x <= y

RECURSIVE CommonLen(_, _, _, _, _, _)
\* the length of the longest common run a[i..], b[j..] within a[..ahi], b[..bhi]
CommonLen(a, i, ahi, b, j, bhi) ==
    IF i > ahi \/ j > bhi \/ a[i] # b[j] THEN 0
    ELSE 1 + CommonLen(a, i + 1, ahi, b, j + 1, bhi)

\* find_longest_match: the longest block a[i..i+k-1] = b[j..j+k-1] within
\* a[alo..ahi] and b[blo..bhi]; of the longest, the one that starts earliest
\* in a, and of those the one that starts earliest in b; k = 0 when none
FindLongestMatch(a, alo, ahi, b, blo, bhi) ==
    LET starts == {p \in (alo..ahi) \X (blo..bhi) : a[p[1]] = b[p[2]]}
        size == [p \in starts |-> CommonLen(a, p[1], ahi, b, p[2], bhi)]
        bestsize == SetMax({size[p] : p \in starts})
        longest == {p \in starts : size[p] = bestsize}
        besti == SetMin({p[1] : p \in longest})
        bestj == SetMin({p[2] : p \in {q \in longest : q[1] = besti}})
    IN  IF starts = {} THEN <<alo, blo, 0>>
        ELSE <<besti, bestj, bestsize>>

RECURSIVE MatchingChars(_, _, _, _, _, _)
\* get_matching_blocks: the total size of the blocks, found by splitting at
\* the longest match and recursing on both sides
MatchingChars(a, alo, ahi, b, blo, bhi) ==
    IF alo > ahi \/ blo > bhi THEN 0
    ELSE LET m == FindLongestMatch(a, alo, ahi, b, blo, bhi)
         IN  IF m[3] = 0 THEN 0
             ELSE m[3]
                  + MatchingChars(a, alo, m[1] - 1, b, blo, m[2] - 1)
                  + MatchingChars(a, m[1] + m[3], ahi, b, m[2] + m[3], bhi)

\* ratio(): 2.0 * matches / (len(a) + len(b)), 1.0 for two empty strings
SequenceMatcherRatio(a, b) ==
    IF Len(a) + Len(b) = 0 THEN ONE
    ELSE Div(2 * MatchingChars(a, 1, Len(a), b, 1, Len(b)), Len(a) + Len(b))

-----------------------------------------------------------------------------
(* calculate_skill_similarity *)

RECURSIVE SetSum(_, _)
\* the sum of f[x] over the x of S
SetSum(S, f) ==
    IF S = {} THEN 0
    ELSE LET x == CHOOSE y \in S : TRUE
         IN  f[x] + SetSum(S \ {x}, f)

\* faulty variant: the share of exact matches alone
SkillScore_ExactOnly(candidate_set, job_set) ==
    IF job_set = {} THEN Raise("ZeroDivisionError")
    ELSE Ok(Div(Cardinality(candidate_set \cap job_set), Cardinality(job_set)))

\* lines 126-157, on the two normalized sets
SkillScore(candidate_set, job_set) ==
    LET exact_matches == Cardinality(candidate_set \cap job_set)
        exact_score == IF job_set # {} THEN Div(exact_matches, Cardinality(job_set))
                       ELSE 0
        unmatched_job_skills == job_set \ candidate_set
        unmatched_candidate_skills == candidate_set \ job_set
        \* lines 138-142: the best similarity above 0.8, else 0
        best_match(job_skill) ==
            SetMax({sim \in {SequenceMatcherRatio(job_skill, candidate_skill) :
                                candidate_skill \in unmatched_candidate_skills} :
                       sim > Dec(8, 10)})
        fuzzy_score ==
            IF unmatched_job_skills # {} /\ unmatched_candidate_skills # {}
            THEN SetSum(unmatched_job_skills,
                        [job_skill \in unmatched_job_skills |-> best_match(job_skill)])
                    \div Cardinality(unmatched_job_skills)
            ELSE 0
        bonus ==
            IF Cardinality(candidate_set) > Cardinality(job_set)
            THEN Min2(Dec(1, 10),
                      (Cardinality(candidate_set) - Cardinality(job_set)) * Dec(2, 100))
            ELSE 0
    IN  IF job_set = {} THEN Raise("ZeroDivisionError")
        ELSE LET coverage_score ==
                     (exact_matches * ONE
                        + fuzzy_score * Cardinality(unmatched_job_skills))
                     \div Cardinality(job_set)
                 final_score ==
                     Mul(exact_score, Dec(7, 10)) + Mul(fuzzy_score, Dec(2, 10))
                       + Mul(coverage_score, Dec(1, 10)) + bonus
             IN  Ok(Min2(ONE, final_score))

calculate_skill_similarity(candidate_skills, job_skills) ==
    IF Not(candidate_skills) \/ Not(job_skills) THEN Ok(0)
    ELSE LET c == normalize_skills(candidate_skills)
             j == normalize_skills(job_skills)
         IN  IF c.exc # "ok" THEN c
             ELSE IF j.exc # "ok" THEN j
             ELSE SkillScore(c.v, j.v)

-----------------------------------------------------------------------------
(* extract_years *)

RECURSIVE SkipSpaces(_, _)
\* \s* from position i: the position after the run of whitespace
SkipSpaces(s, i) ==
    IF i <= Len(s) /\ IsSpace(s[i]) THEN SkipSpaces(s, i + 1) ELSE i

RECURSIVE DigitsEnd(_, _)
\* \d* from position i: the position after the run of digits
DigitsEnd(s, i) ==
    IF i <= Len(s) /\ IsDigit(s[i]) THEN DigitsEnd(s, i + 1) ELSE i

\* (\d+(?:\.\d+)?) from position i: the position after the number, 0 when
\* no number starts at i.  What follows the group in every pattern starts
\* with no digit and no dot, so only the greedy match can succeed
NumEnd(s, i) ==
    IF ~(i <= Len(s) /\ IsDigit(s[i])) THEN 0
    ELSE LET e == DigitsEnd(s, i)
         IN  IF e + 1 <= Len(s) /\ s[e] = "." /\ IsDigit(s[e + 1])
             THEN DigitsEnd(s, e + 2) ELSE e

YEAR == <<"y", "e", "a", "r">>

MONTH == <<"m", "o", "n", "t", "h">>

\* NUM\s*(?:to|-)\s*NUM\s*<unit>s? matched at position i: the two groups,
\* or <<>> when the pattern does not match there
RangeAt(s, i, unit) ==
    LET e1 == NumEnd(s, i)
        a == SkipSpaces(s, e1)
        b == IF OccursAt(s, <<"t", "o">>, a) THEN a + 2
             ELSE IF OccursAt(s, <<"-">>, a) THEN a + 1 ELSE 0
        c == SkipSpaces(s, b)
        e2 == NumEnd(s, c)
    IN  IF e1 # 0 /\ b # 0 /\ e2 # 0 /\ OccursAt(s, unit, SkipSpaces(s, e2))
        THEN <<SubSeq(s, i, e1 - 1), SubSeq(s, c, e2 - 1)>>
        ELSE <<>>

\* NUM\+?\s*<unit> (plus) or NUM\s*<unit> matched at position i: its group
SingleAt(s, i, plus, unit) ==
    LET e == NumEnd(s, i)
        p == IF plus /\ OccursAt(s, <<"+">>, e) THEN e + 1 ELSE e
    IN  IF e # 0 /\ OccursAt(s, unit, SkipSpaces(s, p))
        THEN <<SubSeq(s, i, e - 1)>>
        ELSE <<>>

\* <words, each followed by \s+>NUM\s*years? matched at position i: its group
RECURSIVE PrefixedAt(_, _, _)
PrefixedAt(s, i, words) ==
    IF words = <<>> THEN SingleAt(s, i, FALSE, YEAR)
    ELSE IF OccursAt(s, Head(words), i)
              /\ SkipSpaces(s, i + Len(Head(words))) > i + Len(Head(words))
         THEN PrefixedAt(s, SkipSpaces(s, i + Len(Head(words))), Tail(words))
         ELSE <<>>

\* faulty variant: the patterns of the single values tried before the ranges,
\* and the months before the years
patterns_MonthsFirst == <<
    [re |-> "months", groups |-> 1, month |-> TRUE],
    [re |-> "years", groups |-> 1, month |-> FALSE],
    [re |-> "months-range", groups |-> 2, month |-> TRUE],
    [re |-> "years-range", groups |-> 2, month |-> FALSE],
    [re |-> "over", groups |-> 1, month |-> FALSE],
    [re |-> "more than", groups |-> 1, month |-> FALSE],
    [re |-> "yrs", groups |-> 1, month |-> FALSE] >>

\* lines 66-74: the patterns in their order; groups is the number of groups of
\* the regex, month whether 'month' occurs in its text (line 85)
patterns == <<
    [re |-> "years-range", groups |-> 2, month |-> FALSE],
    [re |-> "years", groups |-> 1, month |-> FALSE],
    [re |-> "months-range", groups |-> 2, month |-> TRUE],
    [re |-> "months", groups |-> 1, month |-> TRUE],
    [re |-> "over", groups |-> 1, month |-> FALSE],
    [re |-> "more than", groups |-> 1, month |-> FALSE],
    [re |-> "yrs", groups |-> 1, month |-> FALSE] >>

\* the pattern matched at position i of s: its groups, or <<>>
MatchAt(pattern, s, i) ==
    CASE pattern.re = "years-range" -> RangeAt(s, i, YEAR)
      [] pattern.re = "years" -> SingleAt(s, i, TRUE, YEAR)
      [] pattern.re = "months-range" -> RangeAt(s, i, MONTH)
      [] pattern.re = "months" -> SingleAt(s, i, FALSE, MONTH)
      [] pattern.re = "over" -> PrefixedAt(s, i, << <<"o", "v", "e", "r">> >>)
      [] pattern.re = "more than" ->
            PrefixedAt(s, i, << <<"m", "o", "r", "e">>, <<"t", "h", "a", "n">> >>)
      [] pattern.re = "yrs" -> SingleAt(s, i, FALSE, <<"y">>)

\* the groups of the first (leftmost) match of re.findall(pattern, s), <<>>
\* when findall returns the empty list
FirstMatch(pattern, s) ==
    LET at == {i \in 1..Len(s) : MatchAt(pattern, s, i) # <<>>}
    IN  IF at = {} THEN <<>>
        ELSE MatchAt(pattern, s, CHOOSE i \in at : \A j \in at : i <= j)

DigitVal(c) == (CHOOSE i \in DOMAIN DigitChars : DigitChars[i] = c) - 1

RECURSIVE IntOf(_)
IntOf(digits) ==
    IF digits = <<>> THEN 0
    ELSE IntOf(SubSeq(digits, 1, Len(digits) - 1)) * 10
           + DigitVal(digits[Len(digits)])

\* float(text) of a text matching \d+(?:\.\d+)?, as a fixed-point number
Float(text) ==
    LET dots == {i \in DOMAIN text : text[i] = "."}
        dot == IF dots = {} THEN Len(text) + 1 ELSE CHOOSE i \in dots : TRUE
        frac == SubSeq(SubSeq(text, dot + 1, Len(text))
                          \o <<"0", "0", "0", "0", "0", "0">>, 1, 6)
    IN  IntOf(SubSeq(text, 1, dot - 1)) * ONE + IntOf(frac)

RECURSIVE ExtractFrom(_, _)
\* lines 76-89: the loop over the patterns from the k-th on
ExtractFrom(exp_text, k) ==
    IF k > Len(patterns) THEN 0
    ELSE LET found == FirstMatch(patterns[k], exp_text)
             \* matches[0]: the tuple of the groups of a pattern with two
             \* groups, the group itself (a str) of a pattern with one
             len_matches0 == IF patterns[k].groups = 2 THEN 2 ELSE Len(found[1])
         IN  IF found = <<>> THEN ExtractFrom(exp_text, k + 1)
             ELSE IF len_matches0 = 2
                  THEN \* min_exp, max_exp = matches[0]: the first group of a
                       \* tuple, the first character of a str of length 2
                       IF patterns[k].groups = 2 THEN Float(found[1])
                       ELSE Float(<<found[1][1]>>)
             ELSE IF patterns[k].month THEN Float(found[1]) \div 12
             ELSE Float(found[1])

\* extract_years(exp_text) for None or a str (.get defaults an absent key to '')
extract_years(exp_text) ==
    IF Not(exp_text) THEN Ok(0)
    ELSE IF exp_text.t # "str" THEN Raise("AttributeError")
    ELSE Ok(ExtractFrom(Lower(exp_text.v), 1))

-----------------------------------------------------------------------------
(* calculate_experience_score, apply_scoring_curve, calculate_education_score *)

\* faulty variant: the over-qualification bonus without the cap of line 166
calculate_experience_score_Uncapped(candidate_exp, required_exp) ==
    IF required_exp.t = "num" /\ required_exp.v = 0 THEN Ok(ONE)
    ELSE IF required_exp.t # "num" THEN Raise("TypeError")
    ELSE IF candidate_exp >= required_exp.v
         THEN Ok(ONE + Min2(Dec(1, 10),
                            Mul(candidate_exp - required_exp.v, Dec(5, 100))))
         ELSE Ok(Sqrt(Div(candidate_exp, required_exp.v)))

\* faulty variant: the linear ratio, without the square root of line 169
calculate_experience_score_Linear(candidate_exp, required_exp) ==
    IF required_exp.t = "num" /\ required_exp.v = 0 THEN Ok(ONE)
    ELSE IF required_exp.t # "num" THEN Raise("TypeError")
    ELSE IF candidate_exp >= required_exp.v THEN Ok(ONE)
    ELSE Ok(Div(candidate_exp, required_exp.v))

\* candidate_exp is a number, required_exp the value of the job's field
calculate_experience_score(candidate_exp, required_exp) ==
    IF required_exp.t = "num" /\ required_exp.v = 0 THEN Ok(ONE)
    ELSE IF required_exp.t # "num" THEN Raise("TypeError")
    ELSE IF candidate_exp >= required_exp.v
         THEN LET bonus == Min2(Dec(1, 10),
                                Mul(candidate_exp - required_exp.v, Dec(5, 100)))
              IN  Ok(Min2(ONE, ONE + bonus))
         ELSE LET ratio == Div(candidate_exp, required_exp.v)
              IN  Ok(Sqrt(ratio))

\* faulty variant: the curve of the docstring (0.5 becomes 0.73, 0.7 becomes
\* 0.88), which has k = 5 and x0 = 0.3
apply_scoring_curve_Docstring(score) ==
    Div(ONE, ONE + Exp(-(5 * (score - Dec(3, 10)))))

\* faulty variant: the sign of the exponent lost
apply_scoring_curve_Falling(score) ==
    Div(ONE, ONE + Exp(6 * (score - Dec(5, 10))))

\* lines 171-181
apply_scoring_curve(score) ==
    LET k == 6
        x0 == Dec(5, 10)
        curved_score == Div(ONE, ONE + Exp(-(k * (score - x0))))
    IN  curved_score

\* lines 196-207: the highest level whose keyword occurs in one of the lines
MaxLevel(lines) ==
    SetMax({EDUCATION_LEVELS[n].value :
               n \in {m \in DOMAIN EDUCATION_LEVELS :
                         \E i \in DOMAIN lines :
                             Contains(Lower(lines[i]), EDUCATION_LEVELS[m].level)}})

\* faulty variant: the lower of the two scores returned (min for max)
calculate_education_score_Min(candidate_edu, job_edu_keywords) ==
    IF Not(job_edu_keywords) THEN Ok(ONE)
    ELSE IF Not(candidate_edu) THEN Ok(Dec(4, 10))
    ELSE LET edu == Iter(candidate_edu)
             keywords == Iter(job_edu_keywords)
             keyword_score ==
                 Div(Cardinality({i \in DOMAIN keywords :
                                     Contains(Lower(Join(<<" ">>, edu)),
                                              Lower(keywords[i]))}),
                     Len(keywords))
             level_score ==
                 IF MaxLevel(edu) >= MaxLevel(keywords) THEN ONE
                 ELSE IF MaxLevel(edu) > 0
                      THEN Div(MaxLevel(edu), MaxLevel(keywords))
                 ELSE Dec(5, 10)
         IN  Ok(Min2(keyword_score, level_score))

\* faulty variant: the test of the candidate's education made first
calculate_education_score_CandidateFirst(candidate_edu, job_edu_keywords) ==
    IF Not(candidate_edu) THEN Ok(Dec(4, 10))
    ELSE IF Not(job_edu_keywords) THEN Ok(ONE)
    ELSE Raise("TypeError")

\* lines 183-226
calculate_education_score(candidate_edu, job_edu_keywords) ==
    IF Not(job_edu_keywords) THEN Ok(ONE)
    ELSE IF Not(candidate_edu) THEN Ok(Dec(4, 10))
    ELSE IF ~Iterable(candidate_edu) \/ ~Iterable(job_edu_keywords)
         THEN Raise("TypeError")
    ELSE LET edu == Iter(candidate_edu)
             keywords == Iter(job_edu_keywords)
             candidate_text == Lower(Join(<<" ">>, edu))
             max_candidate_level == MaxLevel(edu)
             max_required_level == MaxLevel(keywords)
             keyword_matches ==
                 Cardinality({i \in DOMAIN keywords :
                                 Contains(candidate_text, Lower(keywords[i]))})
             keyword_score == Div(keyword_matches, Len(keywords))
             level_score ==
                 IF max_candidate_level >= max_required_level THEN ONE
                 ELSE IF max_candidate_level > 0
                      THEN Div(max_candidate_level, max_required_level)
                 ELSE Dec(5, 10)
         IN  Ok(Max2(keyword_score, level_score))

-----------------------------------------------------------------------------
(* The job store read by load_jobs_data, and the program's state *)

VARIABLES
    mongodb,      \* the smarthire.jobs collection: [up |-> whether MONGODB_URI
                  \* is set and the server answers the ping, jobs |-> documents]
    jobs_file,    \* data/jobs.json: [t |-> "missing"], [t |-> "invalid"] (not
                  \* JSON) or [t |-> "list", v |-> the entries of the JSON list]
    call,         \* the call in progress or last made: [fn |-> name, args |-> tuple]
    ret,          \* its outcome [exc |-> ..., v |-> ...]; exc = "pending" before
    pc            \* "call" before the call runs, "done" after

vars == <<mongodb, jobs_file, call, ret, pc>>

\* faulty variant: no filter on the status
IsActive_Any(job) == TRUE

\* A job entry is a dict, [kind |-> "dict"] with the Python value of each key
\* the engine reads (Absent for a missing key) and its id, title and company
\* (opaque strings, copied to the result), or any other JSON value,
\* [kind |-> "other"].
IsActive(job) == job.status.t = "str" /\ job.status.v = <<"a", "c", "t", "i", "v", "e">>

\* lines 228-276
load_jobs_data ==
    LET \* line 255: find({"status": "active"})
        mongo_jobs == SelectSeq(mongodb.jobs, IsActive)
        \* line 271: job.get('status', 'active') == 'active'
        file_active(job) == job.status.t = "absent" \/ IsActive(job)
    IN  IF mongodb.up /\ mongo_jobs # <<>> THEN Ok(mongo_jobs)
        ELSE IF jobs_file.t = "missing" THEN Ok(<<>>)
        ELSE IF jobs_file.t = "invalid" THEN Raise("JSONDecodeError")
        ELSE IF \E i \in DOMAIN jobs_file.v : jobs_file.v[i].kind # "dict"
             THEN Raise("AttributeError")
        ELSE Ok(SelectSeq(jobs_file.v, file_active))

-----------------------------------------------------------------------------
(* match_jobs *)

SKILL_WEIGHT == Dec(5, 10)

EXP_WEIGHT == Dec(3, 10)

EDU_WEIGHT == Dec(2, 10)

\* faulty variant: words of any length count
LocationBonus_AnyWord(candidate_location, job_location) ==
    IF candidate_location # <<>> /\ job_location # <<>>
       /\ \E word \in ToSet(Split(candidate_location)) :
              Contains(job_location, word)
    THEN Dec(5, 100) ELSE 0

\* lines 297-300, on the two lower-cased locations
LocationBonus(candidate_location, job_location) ==
    IF candidate_location # <<>> /\ job_location # <<>>
       /\ \E word \in ToSet(Split(candidate_location)) :
              Len(word) > 2 /\ Contains(job_location, word)
    THEN Dec(5, 100) ELSE 0

\* faulty variant: the curved score stored as raw_final too
JobResult_CurvedRaw(job, skill_score, exp_score, edu_score, raw_final_score, final_score) ==
    [id |-> job.id,
     title |-> job.title,
     company |-> job.company,
     match_percentage |-> Round1(final_score * 100),
     scores |-> [skill |-> Round3(skill_score),
                 experience |-> Round3(exp_score),
                 education |-> Round3(edu_score),
                 raw_final |-> Round3(final_score),
                 final |-> Round3(final_score)]]

\* lines 311-323: the entry of the result, from the scores of one job
JobResult(job, skill_score, exp_score, edu_score, raw_final_score, final_score) ==
    [id |-> job.id,
     title |-> job.title,
     company |-> job.company,
     match_percentage |-> Round1(final_score * 100),
     scores |-> [skill |-> Round3(skill_score),
                 experience |-> Round3(exp_score),
                 education |-> Round3(edu_score),
                 raw_final |-> Round3(raw_final_score),
                 final |-> Round3(final_score)]]

\* lines 308-310: the capped raw score and its curve
CurveJob(job, skill_score, exp_score, edu_score, raw_final_score) ==
    JobResult(job, skill_score, exp_score, edu_score, raw_final_score,
              apply_scoring_curve(raw_final_score))

\* lines 294-308: the three scores, each of which may raise, and their
\* weighted sum with the location bonus
CombineScores(job, skill_score, exp_score, edu_score, location_bonus) ==
    IF skill_score.exc # "ok" THEN skill_score
    ELSE IF exp_score.exc # "ok" THEN exp_score
    ELSE IF edu_score.exc # "ok" THEN edu_score
    ELSE Ok(CurveJob(job, skill_score.v, exp_score.v, edu_score.v,
                     Min2(ONE, Mul(SKILL_WEIGHT, skill_score.v)
                                 + Mul(EXP_WEIGHT, exp_score.v)
                                 + Mul(EDU_WEIGHT, edu_score.v)
                                 + location_bonus)))

\* lines 293-300: job_location, which must be a string to be lower-cased
ScoreFields(candidate_skills, candidate_exp, candidate_edu, candidate_location, job, location) ==
    IF location.t # "str" THEN Raise("AttributeError")
    ELSE CombineScores(
             job,
             calculate_skill_similarity(candidate_skills, Get(job, "skills", List(<<>>))),
             calculate_experience_score(candidate_exp, Get(job, "min_experience", Num(0))),
             calculate_education_score(candidate_edu,
                                       Get(job, "education_keywords", List(<<>>))),
             LocationBonus(candidate_location, Lower(location.v)))

\* lines 290-323: the body of the try block for one job
ScoreJob(candidate_skills, candidate_exp, candidate_edu, candidate_location, job) ==
    IF job.kind # "dict" THEN Raise("AttributeError")
    ELSE ScoreFields(candidate_skills, candidate_exp, candidate_edu, candidate_location,
                     job, Get(job, "location", Str(<<>>)))

RECURSIVE InsertDesc(_, _)
\* job_result put behind every result whose final is >= its own
InsertDesc(sorted, job_result) ==
    IF sorted = <<>> THEN <<job_result>>
    ELSE IF Head(sorted).scores.final >= job_result.scores.final
         THEN <<Head(sorted)>> \o InsertDesc(Tail(sorted), job_result)
         ELSE <<job_result>> \o sorted

RECURSIVE InsertAsc(_, _)
InsertAsc(sorted, job_result) ==
    IF sorted = <<>> THEN <<job_result>>
    ELSE IF Head(sorted).scores.final <= job_result.scores.final
         THEN <<Head(sorted)>> \o InsertAsc(Tail(sorted), job_result)
         ELSE <<job_result>> \o sorted

RECURSIVE Sort_Ascending(_)
\* faulty variant: the sort without reverse=True
Sort_Ascending(job_results) ==
    IF job_results = <<>> THEN <<>>
    ELSE InsertAsc(Sort_Ascending(SubSeq(job_results, 1, Len(job_results) - 1)),
                   job_results[Len(job_results)])

\* faulty variant: an ascending sort reversed, which also reverses the ties
Sort_AscendingReversed(job_results) ==
    LET sorted == Sort_Ascending(job_results)
    IN  [i \in 1..Len(sorted) |-> sorted[Len(sorted) + 1 - i]]

RECURSIVE Sort(_)
\* line 328: job_results.sort(key=final, reverse=True), a stable sort
Sort(job_results) ==
    IF job_results = <<>> THEN <<>>
    ELSE InsertDesc(Sort(SubSeq(job_results, 1, Len(job_results) - 1)),
                    job_results[Len(job_results)])

RECURSIVE ScoreJobs(_, _, _, _, _, _, _)
\* lines 324-327: the result r of the try block for the i-th job is appended,
\* or the handler runs: it calls job.get (line 326), which raises again for
\* an entry that is no dict, outside any try
AfterJob(candidate_skills, candidate_exp, candidate_edu, candidate_location, jobs, i, job_results, r) ==
    IF r.exc = "ok"
    THEN ScoreJobs(candidate_skills, candidate_exp, candidate_edu, candidate_location,
                   jobs, i + 1, Append(job_results, r.v))
    ELSE IF jobs[i].kind # "dict" THEN Raise("AttributeError")
    ELSE ScoreJobs(candidate_skills, candidate_exp, candidate_edu, candidate_location,
                   jobs, i + 1, job_results)

\* lines 288-327: the loop from the i-th job on, job_results so far
ScoreJobs(candidate_skills, candidate_exp, candidate_edu, candidate_location, jobs, i, job_results) ==
    IF i > Len(jobs) THEN Ok(job_results)
    ELSE AfterJob(candidate_skills, candidate_exp, candidate_edu, candidate_location,
                  jobs, i, job_results,
                  ScoreJob(candidate_skills, candidate_exp, candidate_edu,
                           candidate_location, jobs[i]))

\* line 328, when the loop has not raised
SortResults(job_results) ==
    IF job_results.exc # "ok" THEN job_results ELSE Ok(Sort(job_results.v))

\* lines 284-329, with the fields of the profile and the jobs loaded
MatchPool(candidate_skills, candidate_exp, candidate_edu, location, jobs) ==
    IF candidate_exp.exc # "ok" THEN candidate_exp
    ELSE IF location.t # "str" THEN Raise("AttributeError")
    ELSE IF jobs.exc # "ok" THEN jobs
    ELSE IF jobs.v = <<>> THEN Ok(<<>>)
    ELSE SortResults(ScoreJobs(candidate_skills, candidate_exp.v, candidate_edu,
                               Lower(location.v), jobs.v, 1, <<>>))

\* faulty variant: job_results kept in a list shared by the calls and never
\* cleared, so that a call also returns the results of the call before it
match_jobs_SharedResults(candidate_profile) ==
    LET r == MatchPool(Get(candidate_profile, "skills", List(<<>>)),
                       extract_years(Get(candidate_profile, "experience", Str(<<>>))),
                       Get(candidate_profile, "education", List(<<>>)),
                       Get(candidate_profile, "location", Str(<<>>)),
                       load_jobs_data)
    IN  IF "first" \in DOMAIN call /\ call.first.exc = "ok" /\ r.exc = "ok"
        THEN Ok(Sort(call.first.v \o r.v))
        ELSE r

\* lines 278-329
match_jobs(candidate_profile) ==
    MatchPool(Get(candidate_profile, "skills", List(<<>>)),
              extract_years(Get(candidate_profile, "experience", Str(<<>>))),
              Get(candidate_profile, "education", List(<<>>)),
              Get(candidate_profile, "location", Str(<<>>)),
              load_jobs_data)

-----------------------------------------------------------------------------
(* The inputs of the model: the texts, profiles and job entries the calls are
   made with *)

txt_Python == <<"P", "y", "t", "h", "o", "n">>

txt_React == <<"R", "e", "a", "c", "t">>

txt_python == <<"p", "y", "t", "h", "o", "n">>

txt_react == <<"r", "e", "a", "c", "t">>

txt_sql == <<"s", "q", "l">>

txt_js == <<"j", "s">>

txt_javascript == <<"j", "a", "v", "a", "s", "c", "r", "i", "p", "t">>

txt_blank == <<" ">>

txt_pythons == <<"p", "y", "t", "h", "o", "n", "s">>

txt_3_years == <<"3", " ", "y", "e", "a", "r", "s">>

txt_10_years == <<"1", "0", " ", "y", "e", "a", "r", "s">>

txt_6_months == <<"6", " ", "m", "o", "n", "t", "h", "s">>

txt_Bachelor_of_Science == <<"B", "a", "c", "h", "e", "l", "o", "r", " ", "o", "f", " ", "S", "c", "i", "e", "n", "c", "e">>

txt_Diploma == <<"D", "i", "p", "l", "o", "m", "a", " ", "i", "n", " ", "I", "T">>

txt_bachelor == <<"b", "a", "c", "h", "e", "l", "o", "r">>

txt_master == <<"m", "a", "s", "t", "e", "r">>

txt_Jaipur == <<"J", "a", "i", "p", "u", "r">>

txt_New_Delhi == <<"N", "e", "w", " ", "D", "e", "l", "h", "i">>

txt_Jaipur_Rajasthan == <<"J", "a", "i", "p", "u", "r", ",", " ", "R", "a", "j", "a", "s", "t", "h", "a", "n">>

txt_2 == <<"2">>

txt_inactive == <<"i", "n", "a", "c", "t", "i", "v", "e">>

txt_active == <<"a", "c", "t", "i", "v", "e">>

MaxPool == 2

\* the candidate of the end-to-end scenario
E2EProfile ==
    [skills |-> List(<<txt_Python, txt_React>>),
     experience |-> Str(txt_3_years),
     education |-> List(<<txt_Bachelor_of_Science>>),
     location |-> Str(txt_Jaipur)]

SkillsValues ==
    {Absent, None, List(<<>>), List(<<txt_Python, txt_React>>), List(<<txt_js>>)}

ExperienceValues ==
    {Absent, None, Str(<<>>), Str(txt_3_years), Str(txt_10_years), Str(txt_6_months)}

EducationValues ==
    {Absent, None, List(<<>>), List(<<txt_Bachelor_of_Science>>), List(<<txt_Diploma>>)}

LocationValues ==
    {Absent, None, Str(<<>>), Str(txt_Jaipur), Str(txt_New_Delhi)}

ProfileKeys == {"skills", "experience", "education", "location"}

\* the profiles that differ from the scenario's in at most one field
Profiles ==
    {p \in [skills : SkillsValues, experience : ExperienceValues,
            education : EducationValues, location : LocationValues] :
        Cardinality({k \in ProfileKeys : p[k] # E2EProfile[k]}) <= 1}

\* the job of the end-to-end scenario
JobE2E ==
    [kind |-> "dict", id |-> "e2e", title |-> "Developer", company |-> "Acme",
     skills |-> List(<<txt_python, txt_react, txt_sql>>),
     min_experience |-> Num(2 * ONE),
     education_keywords |-> List(<<txt_bachelor>>),
     location |-> Str(txt_Jaipur_Rajasthan),
     status |-> Str(txt_active)]

\* a job none of whose expected keys is present
JobNoKeys ==
    [kind |-> "dict", id |-> "nokeys", title |-> "Intern", company |-> "Acme",
     skills |-> Absent, min_experience |-> Absent,
     education_keywords |-> Absent, location |-> Absent,
     status |-> Str(txt_active)]

\* JobE2E with one key changed
JobWith(id, key, value) == [[JobE2E EXCEPT ![key] = value] EXCEPT !.id = id]

\* the entries a pool is made of: well-formed jobs, jobs with anomalous
\* values, malformed jobs, and an entry that is no dict
JobEntries ==
    {JobE2E,
     JobNoKeys,
     [JobWith("senior", "skills", List(<<txt_javascript, txt_pythons>>))
         EXCEPT !.min_experience = Num(200 * ONE)],
     JobWith("negative", "min_experience", Num(-2 * ONE)),
     JobWith("blank", "skills", List(<< <<>> >>)),
     JobWith("badexp", "min_experience", Str(txt_2)),
     JobWith("inactive", "status", Str(txt_inactive)),
     JobWith("nostatus", "status", Absent),
     [kind |-> "other"]}

RECURSIVE SeqsUpTo(_, _)
\* the sequences of at most n elements of S
SeqsUpTo(S, n) ==
    IF n = 0 THEN {<<>>}
    ELSE LET shorter == SeqsUpTo(S, n - 1)
         IN  shorter \cup {Append(s, x) : s \in shorter, x \in S}

Pools == SeqsUpTo(JobEntries, MaxPool)

\* the stores load_jobs_data can find: the pool in the reachable database, or
\* the database down and the pool in jobs.json (a document of the database is
\* always a dict), or neither
Stores ==
    {[mongodb |-> [up |-> TRUE, jobs |-> pool], jobs_file |-> [t |-> "missing"]] :
        pool \in {q \in Pools : \A i \in DOMAIN q : q[i].kind = "dict"}}
    \cup
    {[mongodb |-> [up |-> FALSE, jobs |-> <<>>], jobs_file |-> [t |-> "list", v |-> pool]] :
        pool \in Pools}

Pending == [exc |-> "pending", v |-> 0]

-----------------------------------------------------------------------------
(* Spec: calls of match_jobs *)

Init ==
    /\ \E store \in Stores : mongodb = store.mongodb /\ jobs_file = store.jobs_file
    /\ \E candidate_profile \in Profiles :
           call = [fn |-> "match_jobs", args |-> <<candidate_profile>>]
    /\ ret = Pending
    /\ pc = "call"

\* the call of match_jobs runs to its return or to the exception it raises
MatchJobs ==
    /\ pc = "call"
    /\ call.fn = "match_jobs"
    /\ ret' = match_jobs(call.args[1])
    /\ pc' = "done"
    /\ UNCHANGED <<mongodb, jobs_file, call>>

Next == MatchJobs

Spec == Init /\ [][Next]_vars

-----------------------------------------------------------------------------
(* SpecSkill: calls of calculate_skill_similarity *)

MaxSkills == 2

SkillTokens == {txt_Python, txt_react, txt_sql, txt_pythons, <<>>}

\* the skill lists a call is made with, and None
SkillArgs == {None} \cup {List(l) : l \in SeqsUpTo(SkillTokens, MaxSkills)}

\* the pairs of spellings that one list of SKILL_SYNONYMS holds together
SynonymPairs ==
    UNION {ToSet(SKILL_SYNONYMS[g].synonyms) \X ToSet(SKILL_SYNONYMS[g].synonyms) :
              g \in DOMAIN SKILL_SYNONYMS}

SkillCalls ==
    (SkillArgs \X SkillArgs)
    \cup {<<List(<<p[1]>>), List(<<p[2]>>)>> : p \in SynonymPairs}

NoStore ==
    /\ mongodb = [up |-> FALSE, jobs |-> <<>>]
    /\ jobs_file = [t |-> "missing"]

InitSkill ==
    /\ NoStore
    /\ \E args \in SkillCalls : call = [fn |-> "calculate_skill_similarity", args |-> args]
    /\ ret = Pending
    /\ pc = "call"

CallSkillSimilarity ==
    /\ pc = "call"
    /\ call.fn = "calculate_skill_similarity"
    /\ ret' = calculate_skill_similarity(call.args[1], call.args[2])
    /\ pc' = "done"
    /\ UNCHANGED <<mongodb, jobs_file, call>>

NextSkill == CallSkillSimilarity

SpecSkill == InitSkill /\ [][NextSkill]_vars

-----------------------------------------------------------------------------
(* SpecExp: calls of calculate_experience_score *)

MaxYears == 10

\* years in steps of a quarter, from -1 to MaxYears
YearValues == {(q * ONE) \div 4 : q \in (-4)..(4 * MaxYears)}

InitExp ==
    /\ NoStore
    /\ \E candidate_exp \in {y \in YearValues : y >= 0}, required_exp \in YearValues :
           call = [fn |-> "calculate_experience_score",
                   args |-> <<candidate_exp, Num(required_exp)>>]
    /\ ret = Pending
    /\ pc = "call"

CallExperienceScore ==
    /\ pc = "call"
    /\ call.fn = "calculate_experience_score"
    /\ ret' = calculate_experience_score(call.args[1], call.args[2])
    /\ pc' = "done"
    /\ UNCHANGED <<mongodb, jobs_file, call>>

NextExp == CallExperienceScore

SpecExp == InitExp /\ [][NextExp]_vars

-----------------------------------------------------------------------------
(* SpecEdu: calls of calculate_education_score *)

MaxEdu == 2

txt_PhD == <<"P", "h", "D">>

txt_phd == <<"p", "h", "d">>

\* the education lines of a candidate, the education keywords of a job
txt_Computer_Science ==
    <<"C", "o", "m", "p", "u", "t", "e", "r", " ", "S", "c", "i", "e", "n", "c", "e">>

txt_science == <<"s", "c", "i", "e", "n", "c", "e">>

txt_Certificate == <<"C", "e", "r", "t", "i", "f", "i", "c", "a", "t", "e">>

EduLines ==
    {txt_Bachelor_of_Science, txt_Diploma, txt_PhD, txt_Computer_Science,
     txt_Certificate}

EduKeywords == {txt_bachelor, txt_master, txt_phd, txt_science}

InitEdu ==
    /\ NoStore
    /\ \E candidate_edu \in {None} \cup {List(l) : l \in SeqsUpTo(EduLines, MaxEdu)},
          job_edu_keywords \in {None} \cup {List(l) : l \in SeqsUpTo(EduKeywords, MaxEdu)} :
           call = [fn |-> "calculate_education_score",
                   args |-> <<candidate_edu, job_edu_keywords>>]
    /\ ret = Pending
    /\ pc = "call"

CallEducationScore ==
    /\ pc = "call"
    /\ call.fn = "calculate_education_score"
    /\ ret' = calculate_education_score(call.args[1], call.args[2])
    /\ pc' = "done"
    /\ UNCHANGED <<mongodb, jobs_file, call>>

NextEdu == CallEducationScore

SpecEdu == InitEdu /\ [][NextEdu]_vars

-----------------------------------------------------------------------------
(* SpecRepeat: a call of match_jobs, then a second call with the same
   profile, the pool left as it is or with one of its entries taken away *)

\* the profiles of the repeated calls
RepeatProfiles == {E2EProfile, [E2EProfile EXCEPT !.skills = List(<<txt_js>>)]}

InitRepeat ==
    /\ \E store \in Stores : mongodb = store.mongodb /\ jobs_file = store.jobs_file
    /\ \E candidate_profile \in RepeatProfiles :
           call = [fn |-> "match_jobs", args |-> <<candidate_profile>>]
    /\ ret = Pending
    /\ pc = "call"

\* seq without its n-th element
RemoveAt(seq, n) == SubSeq(seq, 1, n - 1) \o SubSeq(seq, n + 1, Len(seq))

\* the second call: call.first keeps the outcome of the first call, call.same
\* tells whether the pool is the one of the first call
CallAgain ==
    /\ pc = "done"
    /\ call = [fn |-> "match_jobs", args |-> call.args]
    /\ ret' = Pending
    /\ pc' = "call"
    /\ \/ /\ UNCHANGED <<mongodb, jobs_file>>
          /\ call' = [fn |-> "match_jobs", args |-> call.args,
                      first |-> ret, same |-> TRUE]
       \/ /\ mongodb.up
          /\ \E n \in DOMAIN mongodb.jobs :
                 mongodb' = [mongodb EXCEPT !.jobs = RemoveAt(@, n)]
          /\ UNCHANGED jobs_file
          /\ call' = [fn |-> "match_jobs", args |-> call.args,
                      first |-> ret, same |-> FALSE]
       \/ /\ ~mongodb.up /\ jobs_file.t = "list"
          /\ \E n \in DOMAIN jobs_file.v :
                 jobs_file' = [jobs_file EXCEPT !.v = RemoveAt(@, n)]
          /\ UNCHANGED mongodb
          /\ call' = [fn |-> "match_jobs", args |-> call.args,
                      first |-> ret, same |-> FALSE]

NextRepeat == MatchJobs \/ CallAgain

SpecRepeat == InitRepeat /\ [][NextRepeat]_vars

-----------------------------------------------------------------------------
(* SpecCurve: calls of apply_scoring_curve *)

MaxFine == 3

\* 0.001, the precision raw_final is reported with
Milli == ONE \div (10 * 10 * 10)

\* the raw scores: every multiple of 0.001 in [0, 1], the MaxFine scores that
\* follow each of them in steps of 0.000001, and those that precede 1
RawScores ==
    {n * Milli + f : n \in 0..(ONE \div Milli - 1), f \in 0..MaxFine}
    \cup {ONE - f : f \in 0..MaxFine}

InitCurve ==
    /\ NoStore
    /\ \E score \in RawScores :
           call = [fn |-> "apply_scoring_curve", args |-> <<score>>]
    /\ ret = Pending
    /\ pc = "call"

CallScoringCurve ==
    /\ pc = "call"
    /\ call.fn = "apply_scoring_curve"
    /\ ret' = Ok(apply_scoring_curve(call.args[1]))
    /\ pc' = "done"
    /\ UNCHANGED <<mongodb, jobs_file, call>>

NextCurve == CallScoringCurve

SpecCurve == InitCurve /\ [][NextCurve]_vars

-----------------------------------------------------------------------------
(* SpecYears: calls of extract_years *)

MaxNum == 18

RECURSIVE NumText(_)
\* the decimal text of a natural number
NumText(n) ==
    IF n < 10 THEN <<DigitChars[n + 1]>>
    ELSE NumText(n \div 10) \o <<DigitChars[(n % 10) + 1]>>

\* the numbers a text is written with: 0..MaxNum, 100 and 2.5
NumTexts ==
    {NumText(n) : n \in 0..MaxNum} \cup {NumText(10 * 10), <<"2", ".", "5">>}

txt_years == <<" ", "Y", "e", "a", "r", "s">>

txt_months == <<" ", "m", "o", "n", "t", "h", "s">>

\* the text of each form, written with the numbers n and m
ExperienceText(form, n, m) ==
    CASE form = "N years" -> n \o txt_years
      [] form = "N+ years" -> n \o <<"+">> \o txt_years
      [] form = "N to M years" -> n \o <<" ", "t", "o", " ">> \o m \o txt_years
      [] form = "N-M years" -> n \o <<"-">> \o m \o txt_years
      [] form = "N months" -> n \o txt_months
      [] form = "N-M months" -> n \o <<"-">> \o m \o txt_months
      [] form = "N months, M years" -> n \o txt_months \o <<",", " ">> \o m \o txt_years
      [] form = "N years, M months" -> n \o txt_years \o <<",", " ">> \o m \o txt_months
      [] form = "N months, Myrs" -> n \o txt_months \o <<",", " ">> \o m \o <<"y", "r", "s">>
      [] form = "fresher" -> <<"f", "r", "e", "s", "h", "e", "r">>

\* the forms written with one number, and with two
SingleForms == {"N years", "N+ years", "N months", "fresher"}

PairForms ==
    {"N to M years", "N-M years", "N-M months", "N months, M years",
     "N years, M months", "N months, Myrs"}

\* a call remembers the form and the numbers its text was written with
InitYears ==
    /\ NoStore
    /\ \E form \in SingleForms \cup PairForms, n \in NumTexts, m \in NumTexts :
           /\ form \in SingleForms => m = n
           /\ call = [fn |-> "extract_years",
                      args |-> <<Str(ExperienceText(form, n, m))>>,
                      form |-> form, n |-> n, m |-> m]
    /\ ret = Pending
    /\ pc = "call"

CallExtractYears ==
    /\ pc = "call"
    /\ call.fn = "extract_years"
    /\ ret' = extract_years(call.args[1])
    /\ pc' = "done"
    /\ UNCHANGED <<mongodb, jobs_file, call>>

NextYears == CallExtractYears

SpecYears == InitYears /\ [][NextYears]_vars

-----------------------------------------------------------------------------
(* SpecNorm: calls of normalize_skills *)

MaxTokens == 1

\* every spelling of SKILL_SYNONYMS, and skills that are in no list
NormTokens ==
    UNION {ToSet(SKILL_SYNONYMS[g].synonyms) : g \in DOMAIN SKILL_SYNONYMS}
    \cup {txt_Python, txt_pythons, txt_blank}

InitNorm ==
    /\ NoStore
    /\ \E skills \in {None} \cup {List(l) : l \in SeqsUpTo(NormTokens, MaxTokens)} :
           call = [fn |-> "normalize_skills", args |-> <<skills>>]
    /\ ret = Pending
    /\ pc = "call"

CallNormalizeSkills ==
    /\ pc = "call"
    /\ call.fn = "normalize_skills"
    /\ ret' = normalize_skills(call.args[1])
    /\ pc' = "done"
    /\ UNCHANGED <<mongodb, jobs_file, call>>

NextNorm == CallNormalizeSkills

SpecNorm == InitNorm /\ [][NextNorm]_vars

-----------------------------------------------------------------------------
(* SpecScore: calls of match_jobs with a pool of one job, over the fields
   the raw score is made of *)

txt_NY == <<"N", "Y">>

txt_JAIPUR == <<"J", "A", "I", "P", "U", "R">>

txt_Albany == <<"A", "l", "b", "a", "n", "y">>

txt_delhi_ncr == <<"d", "e", "l", "h", "i", " ", "n", "c", "r">>

\* the candidates: the scenario's, with other locations and skills
ScoreProfiles ==
    {[[E2EProfile EXCEPT !.location = location] EXCEPT !.skills = skills] :
        location \in {Absent, Str(<<>>), Str(txt_Jaipur), Str(txt_JAIPUR),
                      Str(txt_New_Delhi), Str(txt_NY)},
        skills \in {E2EProfile.skills, List(<<txt_js>>), List(<<>>)}}

\* the jobs: the scenario's, with other locations, skills and requirements
ScorePool ==
    {[JobE2E EXCEPT !.location = location, !.skills = skills,
                    !.min_experience = min_experience] :
        location \in {Absent, Str(<<>>), Str(txt_Jaipur_Rajasthan),
                      Str(txt_Albany), Str(txt_delhi_ncr)},
        skills \in {JobE2E.skills, List(<<txt_javascript, txt_pythons>>)},
        min_experience \in {Num(2 * ONE), Num(200 * ONE)}}

InitScore ==
    /\ mongodb = [up |-> FALSE, jobs |-> <<>>]
    /\ \E job \in ScorePool : jobs_file = [t |-> "list", v |-> <<job>>]
    /\ \E candidate_profile \in ScoreProfiles :
           call = [fn |-> "match_jobs", args |-> <<candidate_profile>>]
    /\ ret = Pending
    /\ pc = "call"

NextScore == MatchJobs

SpecScore == InitScore /\ [][NextScore]_vars

-----------------------------------------------------------------------------
(* SpecRank: calls of match_jobs with pools of jobs whose raw scores are far
   apart, close together, or equal *)

\* the jobs: the scenario's with other experience requirements, and one
\* with other skills
RankJobs ==
    {JobE2E,
     JobWith("min4", "min_experience", Num(4 * ONE)),
     JobWith("min200", "min_experience", Num(200 * ONE)),
     JobWith("min201", "min_experience", Num(201 * ONE)),
     JobWith("scripts", "skills", List(<<txt_javascript, txt_pythons>>))}

RankProfiles ==
    {[E2EProfile EXCEPT !.experience = experience] :
        experience \in {Str(txt_3_years), Str(txt_10_years), Str(txt_6_months)}}

InitRank ==
    /\ mongodb = [up |-> FALSE, jobs |-> <<>>]
    /\ \E pool \in SeqsUpTo(RankJobs, MaxPool) :
           jobs_file = [t |-> "list", v |-> pool]
    /\ \E candidate_profile \in RankProfiles :
           call = [fn |-> "match_jobs", args |-> <<candidate_profile>>]
    /\ ret = Pending
    /\ pc = "call"

NextRank == MatchJobs

SpecRank == InitRank /\ [][NextRank]_vars

-----------------------------------------------------------------------------
(* SpecAdd: two calls of calculate_skill_similarity for the same job skills,
   the second with one of the job's skills added to the candidate's *)

AddTokens == {txt_js, txt_Python, txt_pythons}

AddLists == {List(l) : l \in SeqsUpTo(AddTokens, MaxSkills) \ {<<>>}}

InitAdd ==
    /\ NoStore
    /\ \E candidate_skills \in AddLists, job_skills \in AddLists :
           call = [fn |-> "calculate_skill_similarity",
                   args |-> <<candidate_skills, job_skills>>]
    /\ ret = Pending
    /\ pc = "call"

\* the second call: call.first keeps the outcome of the first call, call.added
\* the skill of the job that the candidate now has as well
CallWithOneMore ==
    /\ pc = "done"
    /\ call = [fn |-> "calculate_skill_similarity", args |-> call.args]
    /\ \E n \in DOMAIN call.args[2].v :
           call' = [fn |-> "calculate_skill_similarity",
                    args |-> <<List(Append(call.args[1].v, call.args[2].v[n])),
                               call.args[2]>>,
                    first |-> ret,
                    added |-> call.args[2].v[n]]
    /\ ret' = Pending
    /\ pc' = "call"
    /\ UNCHANGED <<mongodb, jobs_file>>

NextAdd == CallSkillSimilarity \/ CallWithOneMore

SpecAdd == InitAdd /\ [][NextAdd]_vars

-----------------------------------------------------------------------------
(* SpecStore: the job endpoints of core/main.py (add_job, update_job,
   delete_job, sync_jobs_endpoint), one request at a time, with outages and
   recoveries of the database in between. mongodb.client tells whether
   main.py connected at start-up (jobs_collection is not None); call and ret
   are the last request and the status of its response; pc[id] is how far
   the job of this id has come: "unused", "added" once add_job has reported
   success, "deleted" once delete_job has. *)

MaxJobs == 2

JobIds == 1..MaxJobs

Titles == {"Developer", "Engineer"}

\* main.py lines 504-519: the job add_job builds, always active
NewJob(id, title) ==
    [kind |-> "dict", id |-> id, title |-> title, status |-> Str(txt_active)]

HasId(jobs, id) == \E i \in DOMAIN jobs : jobs[i].id = id

\* the jobs of a readable jobs.json
FileJobs(file) == IF file.t = "list" THEN file.v ELSE <<>>

\* $set of the updated fields on the job of this id
SetTitle(jobs, id, title) ==
    [i \in DOMAIN jobs |->
        IF jobs[i].id = id THEN [jobs[i] EXCEPT !.title = title] ELSE jobs[i]]

WithoutId(jobs, id) == SelectSeq(jobs, LAMBDA job : job.id # id)

\* main.py lines 636-657: jobs.json becomes the active jobs of the database;
\* nothing happens without a connection, or when find raises
sync_json_with_mongodb(db, file) ==
    IF db.client /\ db.up
    THEN [t |-> "list", v |-> SelectSeq(db.jobs, IsActive)]
    ELSE file

\* main.py lines 567-592: a missing or unreadable file counts as []
save_job_to_json(file, job) ==
    [t |-> "list", v |-> Append(FileJobs(file), job)]

\* the database of main.py can be used now
Connected == mongodb.client /\ mongodb.up

\* main.py lines 484-545
add_job ==
    \E id \in JobIds, title \in Titles :
        \* line 505: a new uuid4
        /\ pc[id] = "unused"
        /\ IF Connected
           THEN /\ mongodb' = [mongodb EXCEPT !.jobs = Append(@, NewJob(id, title))]
                /\ jobs_file' = sync_json_with_mongodb(mongodb', jobs_file)
           ELSE /\ jobs_file' = save_job_to_json(jobs_file, NewJob(id, title))
                /\ UNCHANGED mongodb
        /\ call' = [fn |-> "add_job", args |-> <<id>>]
        /\ ret' = Ok(200)
        /\ pc' = [pc EXCEPT ![id] = "added"]

\* main.py lines 712-766 and update_job_in_json, lines 797-823
update_job ==
    \E id \in JobIds, title \in Titles :
        /\ call' = [fn |-> "update_job", args |-> <<id>>]
        /\ UNCHANGED pc
        /\ IF Connected
           THEN IF HasId(mongodb.jobs, id)
                THEN /\ mongodb' = [mongodb EXCEPT !.jobs = SetTitle(@, id, title)]
                     /\ jobs_file' = sync_json_with_mongodb(mongodb', jobs_file)
                     /\ ret' = Ok(200)
                ELSE /\ ret' = Ok(404)
                     /\ UNCHANGED <<mongodb, jobs_file>>
           ELSE /\ UNCHANGED mongodb
                /\ IF jobs_file.t # "list"
                   THEN /\ ret' = Ok(500)
                        /\ UNCHANGED jobs_file
                   ELSE IF HasId(jobs_file.v, id)
                   THEN /\ jobs_file' = [jobs_file EXCEPT !.v = SetTitle(@, id, title)]
                        /\ ret' = Ok(200)
                   ELSE /\ ret' = Ok(404)
                        /\ UNCHANGED jobs_file

\* main.py lines 772-795 and delete_job_from_json, lines 825-852
delete_job ==
    \E id \in JobIds :
        /\ call' = [fn |-> "delete_job", args |-> <<id>>]
        /\ IF Connected
           THEN IF HasId(mongodb.jobs, id)
                THEN /\ mongodb' = [mongodb EXCEPT !.jobs = WithoutId(@, id)]
                     /\ jobs_file' = sync_json_with_mongodb(mongodb', jobs_file)
                     /\ ret' = Ok(200)
                ELSE /\ ret' = Ok(404)
                     /\ UNCHANGED <<mongodb, jobs_file>>
           ELSE /\ UNCHANGED mongodb
                /\ IF jobs_file.t # "list"
                   THEN /\ ret' = Ok(500)
                        /\ UNCHANGED jobs_file
                   ELSE IF HasId(jobs_file.v, id)
                   THEN /\ jobs_file' = [jobs_file EXCEPT !.v = WithoutId(@, id)]
                        /\ ret' = Ok(200)
                   ELSE /\ ret' = Ok(404)
                        /\ UNCHANGED jobs_file
        /\ pc' = IF ret' = Ok(200) THEN [pc EXCEPT ![id] = "deleted"] ELSE pc

\* main.py lines 663-669
sync_jobs_endpoint ==
    /\ jobs_file' = sync_json_with_mongodb(mongodb, jobs_file)
    /\ call' = [fn |-> "sync_jobs_endpoint", args |-> <<>>]
    /\ ret' = Ok(200)
    /\ UNCHANGED <<mongodb, pc>>

\* the database becomes unreachable
Outage ==
    /\ mongodb.up
    /\ mongodb' = [mongodb EXCEPT !.up = FALSE]
    /\ UNCHANGED <<jobs_file, call, ret, pc>>

\* the database is reachable again
Recovery ==
    /\ ~mongodb.up
    /\ mongodb' = [mongodb EXCEPT !.up = TRUE]
    /\ UNCHANGED <<jobs_file, call, ret, pc>>

\* a fresh deployment: no job anywhere
InitStore ==
    /\ \E up \in BOOLEAN, client \in BOOLEAN :
           mongodb = [up |-> up, jobs |-> <<>>, client |-> client]
    /\ jobs_file = [t |-> "missing"]
    /\ call = [fn |-> "start", args |-> <<>>]
    /\ ret = Pending
    /\ pc = [id \in JobIds |-> "unused"]

NextStore ==
    \/ add_job
    \/ update_job
    \/ delete_job
    \/ sync_jobs_endpoint
    \/ Outage
    \/ Recovery

SpecStore == InitStore /\ [][NextStore]_vars

-----------------------------------------------------------------------------
(* SpecSave: add_job requests served at the same time, each taking the
   jobs.json fallback. A request is a call of save_job_to_json; pc[r] is its
   position, call[r].jobs its local list, ret[r] its outcome. The steps are
   the accesses to the file: the read of lines 576-580, the open for writing
   of line 586, which empties the file, and the write of line 587. *)

MaxRequests == 3

Requests == 1..MaxRequests

\* the job that was in jobs.json before the requests
OldJob == NewJob(0, "Engineer")

InitSave ==
    /\ mongodb = [up |-> FALSE, jobs |-> <<>>, client |-> FALSE]
    /\ jobs_file \in {[t |-> "missing"],
                      [t |-> "list", v |-> <<>>],
                      [t |-> "list", v |-> <<OldJob>>]}
    /\ call = [r \in Requests |->
                  [fn |-> "save_job_to_json",
                   args |-> <<NewJob(r, "Developer")>>,
                   jobs |-> <<>>]]
    /\ ret = [r \in Requests |-> Pending]
    /\ pc = [r \in Requests |-> "load"]

\* lines 576-583: jobs = json.load(f), or [] for a missing or unreadable
\* file; jobs.append(job)
LoadJobs(r) ==
    /\ pc[r] = "load"
    /\ call' = [call EXCEPT ![r].jobs = Append(FileJobs(jobs_file), call[r].args[1])]
    /\ pc' = [pc EXCEPT ![r] = "open"]
    /\ UNCHANGED <<mongodb, jobs_file, ret>>

\* line 586: open(jobs_file, "w") leaves an empty file, which is no JSON
OpenForWriting(r) ==
    /\ pc[r] = "open"
    /\ jobs_file' = [t |-> "invalid"]
    /\ pc' = [pc EXCEPT ![r] = "dump"]
    /\ UNCHANGED <<mongodb, call, ret>>

\* lines 587-589: json.dump(jobs, f) and return. When another request has
\* written since this one opened the file, this text overwrites the start of
\* the other: the file holds this list, or no JSON if the other text was longer
DumpJobs(r) ==
    /\ pc[r] = "dump"
    /\ \/ jobs_file' = [t |-> "list", v |-> call[r].jobs]
       \/ /\ jobs_file.t = "list"
          /\ jobs_file' = [t |-> "invalid"]
    /\ ret' = [ret EXCEPT ![r] = Ok(None)]
    /\ pc' = [pc EXCEPT ![r] = "done"]
    /\ UNCHANGED <<mongodb, call>>

NextSave == \E r \in Requests : LoadJobs(r) \/ OpenForWriting(r) \/ DumpJobs(r)

SpecSave == InitSave /\ [][NextSave]_vars

-----------------------------------------------------------------------------
(* SpecLoad: calls of match_jobs over the stores load_jobs_data can meet:
   the database reachable or not, with active and inactive jobs or none, and
   jobs.json missing, unreadable, or a list *)

JobInactive == JobWith("inactive", "status", Str(txt_inactive))

DbPools == SeqsUpTo({JobE2E, JobInactive}, MaxPool)

Files ==
    {[t |-> "missing"], [t |-> "invalid"]}
    \cup {[t |-> "list", v |-> pool] :
             pool \in SeqsUpTo({JobE2E, JobInactive,
                                JobWith("nostatus", "status", Absent),
                                [kind |-> "other"]}, MaxPool)}

InitLoad ==
    /\ \E up \in BOOLEAN, pool \in DbPools : mongodb = [up |-> up, jobs |-> pool]
    /\ jobs_file \in Files
    /\ call = [fn |-> "match_jobs", args |-> <<E2EProfile>>]
    /\ ret = Pending
    /\ pc = "call"

NextLoad == MatchJobs

SpecLoad == InitLoad /\ [][NextLoad]_vars

-----------------------------------------------------------------------------
(* Claims *)

TypeOK == pc \in {"call", "done"}

Done == pc = "done"

\* the candidate profile match_jobs was called with
Profile == call.args[1]

\* the entries of the store the pool is loaded from
Entries ==
    IF mongodb.up THEN mongodb.jobs
    ELSE IF jobs_file.t = "list" THEN jobs_file.v
    ELSE <<>>

IsDict(entry) == entry.kind = "dict"

\* the entries that are records
Dicts == SelectSeq(Entries, IsDict)

\* how many of the records, or of the results, have this id
Count(seq, id) == Cardinality({i \in DOMAIN seq : seq[i].id = id})

AllDicts == Dicts = Entries

\* the entries of the model that every field of is well-formed
WellFormedIds == {"e2e", "senior", "negative"}

(* C1: the sequence match_jobs returns is ordered by final score, highest
   first: for results at positions i < j, final of i >= final of j. *)
C1_OrderedByFinal ==
    Done /\ ret.exc = "ok" =>
        \A i, j \in DOMAIN ret.v :
            i < j => ret.v[i].scores.final >= ret.v[j].scores.final

\* two jobs that the sort has exchanged
C1_Witness ==
    /\ Done /\ ret.exc = "ok" /\ AllDicts
    /\ Len(Entries) = 2 /\ Len(ret.v) = 2
    /\ ret.v[1].id = Entries[2].id /\ ret.v[2].id = Entries[1].id
    /\ ret.v[1].scores.final > ret.v[2].scores.final

(* C2: in every MatchResult returned, skill, experience, education, raw_final
   and final lie in [0,1] and match_percentage in [0,100], also for a
   negative or a very large min_experience. *)
C2_ScoresInRange ==
    Done /\ ret.exc = "ok" =>
        \A i \in DOMAIN ret.v :
            /\ \A k \in {"skill", "experience", "education", "raw_final", "final"} :
                   ret.v[i].scores[k] >= 0 /\ ret.v[i].scores[k] <= ONE
            /\ ret.v[i].match_percentage >= 0
            /\ ret.v[i].match_percentage <= 100 * ONE

\* the jobs with a negative and with a very large min_experience are scored
C2_Witness ==
    /\ Done /\ ret.exc = "ok"
    /\ \E i, j \in DOMAIN ret.v :
           /\ ret.v[i].id = "negative" /\ ret.v[i].scores.experience = ONE
           /\ ret.v[j].id = "senior" /\ ret.v[j].scores.experience < ONE

(* C3: if an entry of the pool is malformed (a wrong field type, or an entry
   that is no record), match_jobs does not raise, the entry is absent from
   the result and every other job is still scored.  (The profile's location
   is a str or absent here: a null location is claim C5's case.) *)
C3_MalformedEntrySkipped ==
    Done /\ Profile.location.t # "none" =>
        /\ ret.exc = "ok"
        /\ Count(ret.v, "badexp") = 0
        /\ \A id \in WellFormedIds : Count(ret.v, id) = Count(Dicts, id)

\* a cause of an exception other than a job's missing keys: the profile's
\* location is null, or an entry is no record
OtherCause == Profile.location.t = "none" \/ ~AllDicts

\* the result of the job with no key: the scores of the defaults
NoKeysResult(r) ==
    /\ r.scores.skill = 0
    /\ r.scores.experience = ONE
    /\ r.scores.education = ONE
    /\ r.scores.raw_final = Dec(5, 10)
    /\ r.scores.final = Dec(5, 10)
    /\ r.match_percentage = 50 * ONE

(* C4 as claimed: when a job record of the pool is missing the expected keys,
   match_jobs does not raise, that job is skipped (it has no MatchResult) and
   the other jobs are still scored. *)
C4_MissingKeysSkipped ==
    Done /\ Count(Dicts, "nokeys") > 0 /\ ~OtherCause =>
        /\ ret.exc = "ok"
        /\ Count(ret.v, "nokeys") = 0
        /\ \A id \in WellFormedIds : Count(ret.v, id) = Count(Dicts, id)

(* C4 as amended: when a job record of the pool is missing the expected keys,
   match_jobs does not raise because of it; the job is not skipped but scored
   with the defaults of .get (no skills, min_experience 0, no keywords, no
   location: skill 0, experience 1, education 1, raw_final 0.5, final 0.5,
   50%), and the other jobs are still scored. *)
C4_MissingKeysScored ==
    Done /\ Count(Dicts, "nokeys") > 0 =>
        /\ ret.exc # "ok" => OtherCause
        /\ ret.exc = "ok" =>
              /\ Count(ret.v, "nokeys") = Count(Dicts, "nokeys")
              /\ \A i \in DOMAIN ret.v : ret.v[i].id = "nokeys" => NoKeysResult(ret.v[i])
              /\ \A id \in WellFormedIds : Count(ret.v, id) = Count(Dicts, id)

\* the job with no key scored next to a well-formed job
C4_Witness ==
    /\ Done /\ ret.exc = "ok"
    /\ Count(Dicts, "nokeys") = 1 /\ Count(ret.v, "nokeys") = 1
    /\ Count(ret.v, "e2e") = 1

(* C5: match_jobs never raises because of the candidate profile: with skills,
   experience, education or location absent, null or empty the call
   completes.  (Every entry of the store is a record here: an entry that is
   none is claim C3's case.) *)
C5_ProfileNeverRaises ==
    Done /\ AllDicts => ret.exc = "ok"

\* the result for the job of the scenario
E2EResults == {i \in DOMAIN ret.v : ret.v[i].id = "e2e"}

\* |x - y| <= 0.001
About(x, y) == x - y <= 1000 /\ y - x <= 1000

(* C6 as claimed: for the candidate and the job of the end-to-end scenario the
   sub-scores are skill about 0.667, experience 1.0, education 1.0, location
   bonus 0.05, and the raw score is about 0.883. *)
C6_ScenarioAsClaimed ==
    Done /\ ret.exc = "ok" /\ Profile = E2EProfile =>
        \A i \in E2EResults :
            /\ About(ret.v[i].scores.skill, 667000)
            /\ ret.v[i].scores.experience = ONE
            /\ ret.v[i].scores.education = ONE
            /\ LocationBonus(Lower(Profile.location.v), Lower(JobE2E.location.v))
                  = Dec(5, 100)
            /\ About(ret.v[i].scores.raw_final, 883000)

(* C6 as amended: for the candidate and the job of the end-to-end scenario the
   sub-scores are skill 0.6 (the job's skills normalize to 8 tokens, 6 of them
   matched: 0.7 * 0.75 + 0.1 * 0.75), experience 1.0, education 1.0, location
   bonus 0.05, and the raw score is 0.85 (final 0.891, 89.1%). *)
C6_Scenario ==
    Done /\ ret.exc = "ok" /\ Profile = E2EProfile =>
        \A i \in E2EResults :
            /\ ret.v[i].scores.skill = Dec(6, 10)
            /\ ret.v[i].scores.experience = ONE
            /\ ret.v[i].scores.education = ONE
            /\ LocationBonus(Lower(Profile.location.v), Lower(JobE2E.location.v))
                  = Dec(5, 100)
            /\ ret.v[i].scores.raw_final = Dec(85, 100)
            /\ ret.v[i].scores.final = Dec(891, 1000)
            /\ ret.v[i].match_percentage = 100 * Dec(891, 1000)

\* the scenario's job scored for the scenario's candidate
C6_Witness ==
    Done /\ ret.exc = "ok" /\ Profile = E2EProfile /\ E2EResults # {}

\* the call is calculate_skill_similarity(S, S) for a list S that holds a
\* token other than ''
SameSkills ==
    /\ call.args[1] = call.args[2]
    /\ call.args[1].t = "list"
    /\ \E n \in DOMAIN call.args[1].v : call.args[1].v[n] # <<>>

(* C7 as claimed: calculate_skill_similarity(S, S) = 1.0 for every non-empty
   skill list S (S normalizing to a non-empty set). *)
C7_IdenticalSkillsScoreOne ==
    Done /\ SameSkills => ret.exc = "ok" /\ ret.v = ONE

(* C7 as amended: calculate_skill_similarity(S, S) = 0.8 for every skill list
   S that normalizes to a non-empty set: exact score and coverage are 1 and
   earn the weights 0.7 and 0.1; the fuzzy score is computed on unmatched
   skills only, so its weight 0.2 is not earned, and there is no bonus. *)
C7_IdenticalSkillsScore ==
    Done /\ SameSkills => ret.exc = "ok" /\ ret.v = Dec(8, 10)

\* a call with the same two skills on both sides
C7_Witness ==
    /\ Done /\ SameSkills /\ ret.v = Dec(8, 10)
    /\ call.args[1].v = <<txt_Python, txt_sql>>

\* the side is empty: None, the empty list, or a list that normalizes to the
\* empty set
EmptySide(skills) == Not(skills) \/ normalize_skills(skills) = Ok({})

(* C8: calculate_skill_similarity returns 0 and does not raise whenever the
   candidate side or the job side is empty: the list passed is empty, or it
   normalizes to the empty set (a list of empty tokens). *)
C8_EmptySideScoresZero ==
    Done /\ (EmptySide(call.args[1]) \/ EmptySide(call.args[2])) =>
        ret.exc = "ok" /\ ret.v = 0

\* the call is calculate_skill_similarity([a], [b]) for two spellings a, b of
\* one synonym list
SynonymCall ==
    \E p \in SynonymPairs : call.args = <<List(<<p[1]>>), List(<<p[2]>>)>>

(* C9: for two spellings a and b of one list of SKILL_SYNONYMS,
   calculate_skill_similarity([a], [b]) has exact-match component 1: every
   token of the normalized job set is in the normalized candidate set. *)
C9_SynonymInvariance ==
    Done /\ SynonymCall =>
        /\ ret.exc = "ok"
        /\ normalize_skills(call.args[2]).v \subseteq normalize_skills(call.args[1]).v

\* v * v <= x, without the truncation of Mul
SquareLe(v, x) == Mul(v, v) < x \/ (Mul(v, v) = x /\ MulRem(v, v) = 0)

(* C10: for candidate years c >= 0 and required years r >= 0,
   calculate_experience_score(c, r) is exactly 1.0 when r = 0 or c >= r, and
   otherwise the square root of c / r, which is below 1.0 (on the fixed-point
   grid: the largest v with v * v <= c / r); (5, 10) gives 0.707. *)
C10_ExperienceScore ==
    LET c == call.args[1]
        r == call.args[2].v
    IN  Done /\ r >= 0 =>
            /\ ret.exc = "ok"
            /\ (r = 0 \/ c >= r) => ret.v = ONE
            /\ ~(r = 0 \/ c >= r) =>
                  /\ ret.v < ONE
                  /\ SquareLe(ret.v, Div(c, r))
                  /\ ~SquareLe(ret.v + 1, Div(c, r))
            /\ (c = 5 * ONE /\ r = 10 * ONE) => ret.v = 707106

\* the calls (5, 10), below the requirement, and an over-qualified one
C10_Witness ==
    /\ Done
    /\ \/ call.args = <<5 * ONE, Num(10 * ONE)>> /\ ret.v = 707106
       \/ call.args = <<10 * ONE, Num(5 * ONE)>> /\ ret.v = ONE

(* C11: calculate_education_score returns 1.0 whenever the job's education
   keywords are empty (None or the empty list), whatever the candidate's
   education is, and 0.4 whenever the keywords are not empty and the
   candidate has no education lines; with both empty the result is 1.0. *)
C11_EducationEmptyRules ==
    Done =>
        /\ Not(call.args[2]) => ret = Ok(ONE)
        /\ ~Not(call.args[2]) /\ Not(call.args[1]) => ret = Ok(Dec(4, 10))

\* both sides empty: the rule of the empty keywords wins
C11_Witness ==
    /\ Done /\ call.fn = "calculate_education_score"
    /\ call.args = <<List(<<>>), List(<<>>)>>
    /\ ret = Ok(ONE)

\* the entry is a posting whose status is given and is not 'active'
NotActive(entry) ==
    IsDict(entry) /\ entry.status.t # "absent" /\ entry.status # Str(txt_active)

(* C12: match_jobs produces no result for a job posting whose status is not
   active, whether the pool is loaded from the database or from jobs.json
   (a posting of jobs.json that gives no status counts as active). *)
C12_OnlyActiveScored ==
    Done /\ ret.exc = "ok" =>
        \A i \in DOMAIN ret.v, n \in DOMAIN Entries :
            NotActive(Entries[n]) => ret.v[i].id # Entries[n].id

\* jobs.json holds an inactive posting before an active one, which alone is
\* scored
C12_Witness ==
    /\ Done /\ ret.exc = "ok" /\ ~mongodb.up
    /\ Len(Entries) = 2 /\ NotActive(Entries[1]) /\ Entries[2] = JobE2E
    /\ Len(ret.v) = 1 /\ ret.v[1].id = "e2e"

(* C13: ties keep pool order: whenever a result comes before the result of
   another job with an equal final score, its job comes before that job
   somewhere in the pool. *)
C13_TiesKeepPoolOrder ==
    Done /\ ret.exc = "ok" =>
        \A i, j \in DOMAIN ret.v :
            (i < j /\ ret.v[i].id # ret.v[j].id
                   /\ ret.v[i].scores.final = ret.v[j].scores.final) =>
                \E m, n \in DOMAIN Entries :
                    /\ m < n
                    /\ Entries[m].id = ret.v[i].id
                    /\ Entries[n].id = ret.v[j].id

\* the results of two different jobs with equal final scores, one after the
\* other
C13_Witness ==
    /\ Done /\ ret.exc = "ok" /\ Len(ret.v) >= 2
    /\ \E i \in DOMAIN ret.v :
           /\ i + 1 \in DOMAIN ret.v
           /\ ret.v[i].id # ret.v[i + 1].id
           /\ ret.v[i].scores.final = ret.v[i + 1].scores.final
           /\ ret.v[i].scores.final > 0

\* the second call has returned
DoneAgain == Done /\ "first" \in DOMAIN call

(* C14: match_jobs is a deterministic, state-free function of the profile and
   the pool: a second call with the same profile and the same pool has the
   outcome of the first; the result of a job is the same in a second call
   whose pool lacks another entry; and a call changes neither the profile
   nor the pool. *)
C14_Deterministic ==
    /\ [](DoneAgain =>
            /\ call.same => ret = call.first
            /\ (ret.exc = "ok" /\ call.first.exc = "ok") =>
                   \A i \in DOMAIN ret.v, j \in DOMAIN call.first.v :
                       ret.v[i].id = call.first.v[j].id => ret.v[i] = call.first.v[j])
    /\ [][pc = "call" => (mongodb' = mongodb /\ jobs_file' = jobs_file
                            /\ call' = call)]_vars

\* the second call is made without the first entry of a pool of two, and
\* gives the second job the result it had in the first call
C14_Witness ==
    /\ DoneAgain /\ ~call.same
    /\ call.first.exc = "ok" /\ Len(call.first.v) = 2
    /\ ret.exc = "ok" /\ Len(ret.v) = 1
    /\ \E j \in DOMAIN call.first.v : ret.v[1] = call.first.v[j]

(* C15 as claimed: apply_scoring_curve is strictly increasing on [0, 1]: a
   raw score and any greater one, here the next representable one, get
   different curved scores. *)
C15_CurveStrictlyIncreasing ==
    Done /\ call.args[1] < ONE =>
        ret.v < apply_scoring_curve(call.args[1] + 1)

(* C15 as amended: apply_scoring_curve is non-decreasing on [0, 1], and
   strictly increasing for raw scores that differ by 0.001 or more; two raw
   scores closer than the resolution of the result can get the same curved
   score. *)
C15_CurveIncreasing ==
    Done =>
        /\ call.args[1] < ONE => ret.v <= apply_scoring_curve(call.args[1] + 1)
        /\ call.args[1] + Milli <= ONE =>
               ret.v < apply_scoring_curve(call.args[1] + Milli)

\* the call with 0.850001, which 0.851001 beats and 0.850002 does not
C15_Witness ==
    /\ Done /\ call.fn = "apply_scoring_curve" /\ call.args = <<Dec(85, 100) + 1>>
    /\ ret.v < apply_scoring_curve(call.args[1] + Milli)
    /\ ret.v = apply_scoring_curve(call.args[1] + 1)

(* C16: apply_scoring_curve(0.5) = 0.5 exactly: a raw score of 0.5 is
   reported as a final score of 0.5 and a match_percentage of 50.0. *)
C16_CurveMidpoint ==
    Done /\ call.args = <<Dec(5, 10)>> =>
        /\ ret = Ok(Dec(5, 10))
        /\ Round3(ret.v) = Dec(5, 10)
        /\ Round1(ret.v * 100) = 50 * ONE

\* the call with 0.5
C16_Witness ==
    /\ Done /\ call.fn = "apply_scoring_curve"
    /\ call.args = <<Dec(5, 10)>> /\ ret.v = Dec(5, 10)

(* C17: for the text 'N years' or 'N+ years', extract_years returns the
   number N, for every N, also one written with two or more digits
   ('10 years' gives 10). *)
C17_YearsValue ==
    Done /\ call.form \in {"N years", "N+ years"} => ret = Ok(Float(call.n))

(* C18: when the first pattern that matches is a months pattern ('M months'
   or 'M1-M2 months'), extract_years returns years: the month count (the
   lower bound of a range) divided by 12, also for two-digit M ('18 months'
   gives 1.5). *)
C18_MonthsInYears ==
    Done /\ call.form \in {"N months", "N-M months"} =>
        ret = Ok(Float(call.n) \div 12)

\* what extract_years makes of the text 'N years' written with the number n
YearsAlone(n) == extract_years(Str(ExperienceText("N years", n, n)))

(* C19 as claimed: the patterns are tried in their order and the first that
   matches decides: a text with a years range ('N to M years', 'N-M years')
   yields the lower bound N, and a years pattern anywhere in the text wins
   over any months pattern of the text, here the years written 'Myrs'. *)
C19_YearsAlwaysWin ==
    Done =>
        /\ call.form \in {"N to M years", "N-M years"} => ret = Ok(Float(call.n))
        /\ call.form = "N months, Myrs" => ret = YearsAlone(call.m)

(* C19 as amended: the patterns are tried in their order and the first that
   matches decides: a text with a years range ('N to M years', 'N-M years')
   yields the lower bound N, not the M that the pattern 'M years' would find,
   and a text with both a months pattern and 'M years' yields what 'M years'
   alone yields, wherever the years stand; years written 'Myrs' or 'Myr' are
   the last pattern and lose against a months pattern of the text. *)
C19_PatternPriority ==
    Done =>
        /\ call.form \in {"N to M years", "N-M years"} => ret = Ok(Float(call.n))
        /\ call.form = "N months, M years" => ret = YearsAlone(call.m)
        /\ call.form = "N years, M months" => ret = YearsAlone(call.n)
        /\ call.form = "N months, Myrs" =>
               ret = extract_years(Str(ExperienceText("N months", call.n, call.n)))

\* '6-12 Years' gives 6, '6 months, 3 Years' gives 3, '6 months, 3yrs' gives 0.5
C19_Witness ==
    /\ Done /\ call.fn = "extract_years"
    /\ \/ /\ call.form = "N-M years" /\ call.n = <<"6">> /\ call.m = <<"1", "2">>
          /\ ret = Ok(6 * ONE)
       \/ /\ call.form = "N months, M years" /\ call.n = <<"6">> /\ call.m = <<"3">>
          /\ ret = Ok(3 * ONE)
       \/ /\ call.form = "N months, Myrs" /\ call.n = <<"6">> /\ call.m = <<"3">>
          /\ ret = Ok(Dec(5, 10))

(* C20: normalize_skills expands every synonym group a token belongs to: for
   each token of the list and each group of SKILL_SYNONYMS whose list holds
   the cleaned token, the whole list of the group is in the result (a token
   of two lists, such as 'sql', brings in both). *)
C20_EveryGroupExpanded ==
    Done /\ call.args[1].t = "list" =>
        /\ ret.exc = "ok"
        /\ \A i \in DOMAIN call.args[1].v, g \in DOMAIN SKILL_SYNONYMS :
               CleanSkill(call.args[1].v[i]) \in ToSet(SKILL_SYNONYMS[g].synonyms)
                   => ToSet(SKILL_SYNONYMS[g].synonyms) \subseteq ret.v

(* C21: normalize_skills skips empty and blank tokens: for every input list
   the result never contains the empty string, also when a token is only
   whitespace. *)
C21_NoEmptyToken ==
    Done /\ call.fn = "normalize_skills" => ret.exc = "ok" /\ <<>> \notin ret.v

\* the call is calculate_education_score with two non-empty lists
BothEducationLists ==
    /\ call.fn = "calculate_education_score"
    /\ call.args[1].t = "list" /\ call.args[1].v # <<>>
    /\ call.args[2].t = "list" /\ call.args[2].v # <<>>

\* the highest level of EDUCATION_LEVELS named in one of the texts, 0 if none
HighestLevel(texts) ==
    LET found == {n \in DOMAIN EDUCATION_LEVELS :
                     \E i \in DOMAIN texts :
                         Contains(Lower(texts[i]), EDUCATION_LEVELS[n].level)}
    IN  IF found = {} THEN 0
        ELSE CHOOSE v \in {EDUCATION_LEVELS[n].value : n \in found} :
                 \A n \in found : EDUCATION_LEVELS[n].value <= v

\* the share of the job's keywords found in the candidate's joined lines
KeywordShare(lines, keywords) ==
    Div(Cardinality({i \in DOMAIN keywords :
                        Contains(Lower(Join(<<" ">>, lines)), Lower(keywords[i]))}),
        Len(keywords))

LevelScore(lines, keywords) ==
    IF HighestLevel(lines) >= HighestLevel(keywords) THEN ONE
    ELSE IF HighestLevel(lines) > 0
         THEN Div(HighestLevel(lines), HighestLevel(keywords))
    ELSE Dec(5, 10)

(* C22: with non-empty education keywords and non-empty education lines,
   calculate_education_score returns max(keyword_score, level_score):
   keyword_score is the share of the job's keywords found in the joined
   candidate text; level_score is 1.0 if the candidate's highest level is at
   least the highest required level, else their ratio if the candidate has a
   level, else 0.5. *)
C22_EducationScore ==
    Done /\ BothEducationLists =>
        LET k == KeywordShare(call.args[1].v, call.args[2].v)
            l == LevelScore(call.args[1].v, call.args[2].v)
        IN  ret = Ok(IF k >= l THEN k ELSE l)

\* a diploma and a line without level against the keywords science and phd:
\* keyword_score 0.5 beats level_score 0.4
C22_Witness ==
    /\ Done /\ BothEducationLists
    /\ call.args[1].v = <<txt_Diploma, txt_Computer_Science>>
    /\ call.args[2].v = <<txt_science, txt_phd>>
    /\ ret = Ok(Dec(5, 10))

\* the sub-scores of a job for the candidate of the call, not rounded
SkillOf(job) ==
    calculate_skill_similarity(Get(Profile, "skills", List(<<>>)),
                               Get(job, "skills", List(<<>>))).v

ExperienceOf(job) ==
    calculate_experience_score(
        extract_years(Get(Profile, "experience", Str(<<>>))).v,
        Get(job, "min_experience", Num(0))).v

EducationOf(job) ==
    calculate_education_score(Get(Profile, "education", List(<<>>)),
                              Get(job, "education_keywords", List(<<>>))).v

\* 0.5 * skill_score + 0.3 * exp_score + 0.2 * edu_score
WeightedSum(job) ==
    Mul(Dec(5, 10), SkillOf(job)) + Mul(Dec(3, 10), ExperienceOf(job))
      + Mul(Dec(2, 10), EducationOf(job))

\* the one job of the pool and its result
OneJob == jobs_file.v[1]

OneResult == Done /\ ret.exc = "ok" /\ Len(ret.v) = 1

\* the location bonus of a job for the candidate of the call
BonusOf(job) ==
    LocationBonus(Lower(Get(Profile, "location", Str(<<>>)).v),
                  Lower(Get(job, "location", Str(<<>>)).v))

\* the scores of a result are those of the raw score `raw'
ScoresFrom(result, raw) ==
    /\ result.scores.raw_final = Round3(raw)
    /\ result.scores.final = Round3(apply_scoring_curve(raw))
    /\ result.match_percentage = Round1(apply_scoring_curve(raw) * 100)

(* C23: for every scored job, raw_final is min(1, 0.5 * skill_score +
   0.3 * exp_score + 0.2 * edu_score + location_bonus), computed from the
   sub-scores before their rounding (and rounded to 3 decimals itself); the
   weights sum to 1; the curve gives final and match_percentage and is not
   applied to the stored raw_final. *)
C23_RawFinal ==
    OneResult =>
        /\ SKILL_WEIGHT + EXP_WEIGHT + EDU_WEIGHT = ONE
        /\ ScoresFrom(ret.v[1], Min2(ONE, WeightedSum(OneJob) + BonusOf(OneJob)))

\* the scenario: raw_final 0.85 is stored, and final is its curve, 0.891
C23_Witness ==
    /\ OneResult /\ OneJob = JobE2E /\ Profile = E2EProfile
    /\ ret.v[1].scores.raw_final = Dec(85, 100)
    /\ ret.v[1].scores.final = Dec(891, 1000)

\* positions i..j of s hold a whitespace-separated word of s
IsWordAt(s, i, j) ==
    /\ i <= j
    /\ \A k \in i..j : s[k] # " "
    /\ i = 1 \/ s[i - 1] = " "
    /\ j = Len(s) \/ s[j + 1] = " "

\* word occurs in s, whatever the case of the letters
OccursIn(word, s) ==
    \E k \in 0..(Len(s) - Len(word)) :
        Lower(SubSeq(s, k + 1, k + Len(word))) = Lower(word)

\* some word of the candidate location longer than 2 characters occurs in
\* the job location
SharesWord(candidate_location, job_location) ==
    \E i, j \in 1..Len(candidate_location) :
        /\ IsWordAt(candidate_location, i, j)
        /\ j - i + 1 > 2
        /\ OccursIn(SubSeq(candidate_location, i, j), job_location)

\* the locations as given: of the candidate of the call, and of a job
CandidateLocation == Get(Profile, "location", Str(<<>>)).v

JobLocation(job) == Get(job, "location", Str(<<>>)).v

BonusIsCounted(result, job, bonus) ==
    result.scores.raw_final = Round3(Min2(ONE, WeightedSum(job) + bonus))

(* C24: location_bonus is 0.05 exactly when the candidate location and the
   job location are both non-empty and some whitespace-separated word of the
   candidate location longer than 2 characters occurs, whatever the case, as
   a substring of the job location; in every other case it is 0. *)
C24_LocationBonus ==
    OneResult =>
        BonusIsCounted(ret.v[1], OneJob,
                       IF /\ CandidateLocation # <<>>
                          /\ JobLocation(OneJob) # <<>>
                          /\ SharesWord(CandidateLocation, JobLocation(OneJob))
                       THEN Dec(5, 100) ELSE 0)

\* "JAIPUR" against "Jaipur, Rajasthan": the bonus lifts 0.8 to 0.85
C24_Witness ==
    /\ OneResult
    /\ CandidateLocation = txt_JAIPUR
    /\ JobLocation(OneJob) = txt_Jaipur_Rajasthan
    /\ [OneJob EXCEPT !.location = Absent] = [JobE2E EXCEPT !.location = Absent]
    /\ Profile.skills = E2EProfile.skills
    /\ ret.v[1].scores.raw_final = Dec(85, 100)

\* the raw score of a job for the candidate of the call, before the curve
\* and before any rounding
RawOf(job) == Min2(ONE, WeightedSum(job) + BonusOf(job))

\* the job of the pool a result was made from
JobOf(result) == CHOOSE job \in ToSet(jobs_file.v) : job.id = result.id

(* C25: ranking respects the raw score: if the raw (pre-curve) score of job
   A is strictly greater than that of job B, A never appears after B in the
   result of match_jobs, whatever the order of A and B in the pool. *)
C25_RankedByRaw ==
    Done /\ ret.exc = "ok" =>
        \A i, j \in DOMAIN ret.v :
            i < j => RawOf(JobOf(ret.v[i])) >= RawOf(JobOf(ret.v[j]))

(* C26: calculate_skill_similarity is monotone in exact matches: for fixed
   job skills, adding to the candidate's skills a skill that exactly equals
   one of the job's required skills, all other candidate skills unchanged,
   never lowers the score. *)
C26_MonotoneInExactMatches ==
    Done /\ call.fn = "calculate_skill_similarity" /\ "added" \in DOMAIN call =>
        ret.exc = "ok" /\ call.first.exc = "ok" /\ ret.v >= call.first.v

\* some line of the list holds a key of EDUCATION_LEVELS
NamesLevel(lines) == HighestLevel(lines) > 0

(* C27: supplying education data never hurts: for any non-empty list of job
   education keywords, a candidate whose education lines contain a
   recognized level keyword never gets a lower calculate_education_score
   than a candidate with no education lines at all (0.4). *)
C27_EducationNeverHurts ==
    Done /\ BothEducationLists /\ NamesLevel(call.args[1].v) =>
        /\ calculate_education_score(List(<<>>), call.args[2]) = Ok(Dec(4, 10))
        /\ ret.exc = "ok"
        /\ ret.v >= Dec(4, 10)

\* the ids of the jobs load_jobs_data hands to match_jobs
PoolIds ==
    IF load_jobs_data.exc = "ok"
    THEN {load_jobs_data.v[i].id : i \in DOMAIN load_jobs_data.v}
    ELSE {}

(* C28: a job for which add_job reported success stays in the pool that
   load_jobs_data hands to match_jobs, across any later sequence of add,
   update, delete and sync operations and of outages and recoveries of the
   database, until delete_job succeeds for its id. *)
C28_AddedJobStays ==
    \A id \in DOMAIN pc : pc[id] = "added" => id \in PoolIds

\* every call of save_job_to_json has returned, none with an error
AllSaved == \A r \in DOMAIN pc : pc[r] = "done" /\ ret[r] = Ok(None)

(* C29: concurrent add_job requests that take the jobs.json fallback lose no
   job: after any interleaving of save_job_to_json calls that all return
   without error, jobs.json contains every job passed to them. *)
C29_NoJobLost ==
    AllSaved =>
        /\ jobs_file.t = "list"
        /\ \A r \in DOMAIN call : HasId(jobs_file.v, call[r].args[1].id)

\* the active jobs of the database, as find({"status": "active"}) gives them
DatabaseActive == SelectSeq(mongodb.jobs, IsActive)

\* an entry of jobs.json counts as active: its status is "active" or absent
CountsAsActive(job) == job.status.t = "absent" \/ IsActive(job)

(* C30: load_jobs_data never raises and follows a fixed fallback chain: it
   returns the database's active jobs when the database is reachable and
   holds at least one, otherwise the active entries of jobs.json, and the
   empty list when neither source yields jobs (file missing or unreadable),
   in which case match_jobs returns []. *)
C30_FallbackChain ==
    Done /\ call.fn = "match_jobs" /\ Profile = E2EProfile =>
        /\ load_jobs_data.exc = "ok"
        /\ load_jobs_data.v =
               IF mongodb.up /\ DatabaseActive # <<>> THEN DatabaseActive
               ELSE IF jobs_file.t = "list" THEN SelectSeq(jobs_file.v, CountsAsActive)
               ELSE <<>>
        /\ load_jobs_data.v = <<>> => ret = Ok(<<>>)

=============================================================================
